---- MODULE Spec2Model ----
(***************************************************************************)
(* Model of the resumable single-item pipeline (process_one_video.py) and  *)
(* its parallel publisher (upload_one_video.py).                           *)
(*                                                                         *)
(* One item is modelled.  The filesystem is the set fs of the item's files *)
(* that exist; disk / pdisk are the documents held by the sidecar in the   *)
(* workspace and in processed/.  A run of process_video is a sequence of   *)
(* actions, one per filesystem effect, so that a process kill (Crash) can  *)
(* fall between any two effects.                                           *)
(***************************************************************************)
EXTENDS Naturals, Integers, FiniteSets, Sequences, TLC

VARIABLES
    fs,             \* files of the item that exist
    disk,           \* document in <source>.status.json (NullDoc when absent)
    pdisk,          \* document in processed/<source>.status.json
    pc,             \* position of process_video ("idle": no process)
    cur,            \* step index / loop index at the current position
    upload,         \* argument upload of the current run
    skip_platforms, \* argument skip_platforms of the current run
    sidecar,        \* process_video's local dict `sidecar`
    excKind,        \* the exception in flight out of _run_step
    usidecar,       \* upload_one_video's dict `sidecar` shared by the threads
    ngrok_up,       \* upload_one_video's local `ngrok_up`
    skip,           \* upload_one_video's local `skip`
    results,        \* upload_one_video's dict `results`
    wst,            \* state of each target's thread
    exit_code,      \* exit status of the last process (-1: none yet)
    executed,       \* history: steps whose transform was called in this run
    hadStable,      \* history: steps whose stable artifact existed at their check
    finalAtStart,   \* history: the final artifact existed when the run began
    failedStep,     \* history: step whose transform raised in this run (0: none)
    active,         \* history: steps whose transform is executing now
    invoked,        \* history: targets whose publish call was made in this run
    doneAtBegin,    \* history: targets recorded done when the publish phase began
    outcome,        \* history: what each target's own publish call did
    failedAtBegin,  \* history: targets recorded failed when the publish phase began
    crashedIn,      \* history: step whose transform the last kill interrupted (0: none)
    resumeFrom,     \* history: step the run before this one was killed in (0: none)
    crashes,        \* number of process kills so far
    \* -- the sidecar file under its writers (_save_sidecar, _write_sidecar)
    ino,            \* content of each inode: the chunks written, by offset
    path_ino,       \* inode at the sidecar path (0: no such file)
    tmp_ino,        \* inode at the sidecar path + ".tmp" (0: no such file)
    handle,         \* the inode each writer has open (0: none)
    offset,         \* the file position of each writer's handle
    sidecar_lock,   \* holder of sidecar_lock ("free": nobody)
    wpos,           \* position of each writer in _save_sidecar
    wcount,         \* number of writes each writer has completed
    \* -- the batch run (process_all_videos.py)
    folder,         \* names of the entries of the folder
    dirs,           \* the entries of the folder that are directories
    videos,         \* the work list find_unprocessed_videos returned
    notices,        \* entries a "Skipping ..." notice was printed for
    dpc,            \* position of the discovery
    max_workers,    \* main: max_workers
    threads,        \* main: state of each worker thread, by position in videos
    pending,        \* main: pending, threads not started yet
    main_active,    \* main: active, threads started and not yet seen dead
    main_results,   \* main: results, the outcome each worker stored
    mpc,            \* position of main
    primes,         \* main: iterations done of `for _ in range(max_workers)`
    started,        \* history: threads in the order they were started
    printed,        \* the lines of the final report printed so far
    main_exit,      \* exit code of main (-1: running)
    returncode,     \* main: proc.returncode of each worker's subprocess (-1: running)
    \* -- a publish polling loop (wait_for_container, _poll_status)
    pplat,          \* the target whose loop this is
    clock,          \* time.time() - start, in seconds
    ppc,            \* position in the loop
    rate_limit_retries, \* wait_for_container: rate_limit_retries
    streak,         \* history: rate-limit errors received in a row
    delays,         \* history: the backoff delays slept in this row of errors
    nreq,           \* history: number of status requests made
    cause,          \* history: why the loop gave up ("none": it did not)
    poll_error,     \* the error _upload recorded for the target ("none": no record)
    \* -- the live display of a batch run (LiveDisplay, run_one_live)
    display_lock,   \* holder of display.lock (0: nobody)
    video_status,   \* display.video_status
    step_status,    \* display.steps[name][i]["status"]
    wkpc,           \* position of each worker in run_one_live
    current_step,   \* run_one_live: current_step
    proc_rc,        \* run_one_live: proc.returncode (-1: running)
    live_results,   \* main: results
    rpc,            \* position of main in draw
    rv,             \* render: index of the video being rendered
    snap,           \* render: the video_status read for that video
    lines,          \* render: what the lines rendered so far show
    dmain,          \* position of main
    dexit           \* exit code of main (-1: running)

pipeVars == <<fs, disk, pdisk, pc, cur, upload, skip_platforms, sidecar, excKind,
          usidecar, ngrok_up, skip, results, wst, exit_code, executed,
          hadStable, finalAtStart, failedStep, active, invoked, doneAtBegin,
          outcome, failedAtBegin, crashedIn, resumeFrom>>

\* the variables of the sidecar file and its writers
writeVars == <<ino, path_ino, tmp_ino, handle, offset, sidecar_lock, wpos, wcount>>

\* the variables of the batch run
batchVars == <<folder, dirs, videos, notices, dpc, max_workers, threads, pending,
               main_active, main_results, mpc, primes, started, printed, main_exit,
               returncode>>

\* the variables of a polling loop
pollVars == <<pplat, clock, ppc, rate_limit_retries, streak, delays, nreq, cause,
              poll_error>>

\* the variables of the live display
dispVars == <<display_lock, video_status, step_status, wkpc, current_step, proc_rc,
              live_results, rpc, rv, snap, lines, dmain, dexit>>

vars == <<pipeVars, crashes, writeVars, batchVars, pollVars, dispVars>>

\* bound on the number of process kills explored
MaxCrashes == 2

----------------------------------------------------------------------------
(* Names *)

Steps == 1..3

StepName == <<"crop", "scrub_voices", "normalize">>

\* mutant: the transform writes straight to the stable checkpoint path
TmpOf_Stable == <<"cropped", "novocals", "final">>

\* in-progress paths, stable checkpoint paths, and each transform's input
TmpOf == <<"cropping", "scrubbing", "normalizing">>
StableOf == <<"cropped", "novocals", "final">>
InputOf == <<"src", "cropped", "novocals">>

PLATFORMS == <<"Instagram Reels", "YouTube Shorts", "TikTok">>

Targets == {PLATFORMS[i] : i \in 1..Len(PLATFORMS)}

_platform_key(name) ==
    CASE name = "Instagram Reels" -> "upload_instagram_reels"
      [] name = "YouTube Shorts"  -> "upload_youtube_shorts"
      [] name = "TikTok"          -> "upload_tiktok"

Keys == {StepName[s] : s \in Steps} \cup {_platform_key(n) : n \in Targets}

\* what the command line can pass as skip_platforms
SkipChoices == {{}, {"TikTok"}}

\* what a transform can raise into _run_step's `except BaseException`
StepExcKinds == {"SystemExit", "Exception", "KeyboardInterrupt"}

\* what a publish call can raise into _upload
UploadExcKinds == {"SystemExit", "Exception"}

----------------------------------------------------------------------------
(* Sidecar documents *)

NoRec == [status |-> "none", error |-> "none", duration |-> FALSE]

\* mutant: a step is recorded done when it begins
InProgressRec_Done == [status |-> "done", error |-> "none", duration |-> TRUE]

InProgressRec == [status |-> "in_progress", error |-> "none", duration |-> FALSE]

DoneRec == [status |-> "done", error |-> "none", duration |-> TRUE]

FailedRec(err) == [status |-> "failed", error |-> err, duration |-> TRUE]

\* the record written when the reachability precheck fails: no duration
GatedRec == [status |-> "failed", error |-> "ngrok not reachable", duration |-> FALSE]

FreshDoc == [status |-> "none", steps |-> [k \in Keys |-> NoRec]]

NullDoc == [status |-> "null", steps |-> [k \in Keys |-> NoRec]]

_read_sidecar == IF "sidecar" \in fs THEN disk ELSE FreshDoc

StepErrorMsg(kind) ==
    IF kind = "SystemExit" THEN "exited with code 1" ELSE "str(exc)"

UploadErrorMsg(kind) ==
    IF kind = "SystemExit" THEN "upload exited with error" ELSE "str(exc)"

----------------------------------------------------------------------------
(* Results of upload_one_video *)

NoRes == [present |-> FALSE, ok |-> FALSE, err |-> "none"]

OkRes == [present |-> TRUE, ok |-> TRUE, err |-> "none"]

FailRes(err) == [present |-> TRUE, ok |-> FALSE, err |-> err]

----------------------------------------------------------------------------
(* The sidecar file, at the level of one write                             *)
(* (_save_sidecar of upload_one_video.py, _write_sidecar of                *)
(* process_one_video.py): open(tmp, "w"), json.dump in chunks, os.replace. *)

\* the threads of one upload_one_video call that write the sidecar
Writers == Targets

\* each _upload writes its record twice: in_progress, then done or failed
WritesPerWorker == 2

\* number of chunks json.dump writes a document in
NChunks == 2

\* inodes: the one at the sidecar path and one per open handle
Inodes == 1..(Cardinality(Writers) + 1)

\* a chunk of the document written by writer w in its write number c
Chunk(w, c) == <<w, c>>

\* a position of a file that was never written (a hole)
Hole == <<"hole", 0>>

\* the document process_video wrote before the publish phase began
InitialContent == [k \in 1..NChunks |-> Chunk("process_video", 0)]

\* json.load succeeds on this content: every chunk of one document is there
Complete(content) ==
    /\ Len(content) = NChunks
    /\ content[1] # Hole
    /\ \A k \in 1..NChunks : content[k] = content[1]

\* the content after a write of chunk ch at position pos (0-based)
WriteAt(content, pos, ch) ==
    [k \in 1..(IF Len(content) > pos + 1 THEN Len(content) ELSE pos + 1) |->
        IF k = pos + 1 THEN ch
        ELSE IF k <= Len(content) THEN content[k]
        ELSE Hole]

WriteIdle ==
    /\ ino = [i \in Inodes |-> IF i = 1 THEN InitialContent ELSE <<>>]
    /\ path_ino = 1
    /\ tmp_ino = 0
    /\ handle = [w \in Writers |-> 0]
    /\ offset = [w \in Writers |-> 0]
    /\ sidecar_lock = "free"
    /\ wpos = [w \in Writers |-> "idle"]
    /\ wcount = [w \in Writers |-> 0]

\* no polling loop is running
PollIdle ==
    /\ pplat = "none"
    /\ clock = 0
    /\ ppc = "off"
    /\ rate_limit_retries = 0
    /\ streak = 0
    /\ delays = <<>>
    /\ nreq = 0
    /\ cause = "none"
    /\ poll_error = "none"

\* no live display
DisplayIdle ==
    /\ display_lock = 0
    /\ video_status = <<>>
    /\ step_status = <<>>
    /\ wkpc = <<>>
    /\ current_step = <<>>
    /\ proc_rc = <<>>
    /\ live_results = <<>>
    /\ rpc = "off"
    /\ rv = 0
    /\ snap = "none"
    /\ lines = <<>>
    /\ dmain = "off"
    /\ dexit = -1

\* no batch run: process_one_video.py was called directly
BatchIdle ==
    /\ folder = {}
    /\ dirs = {}
    /\ videos = <<>>
    /\ notices = {}
    /\ dpc = "off"
    /\ max_workers = 0
    /\ threads = <<>>
    /\ pending = <<>>
    /\ main_active = <<>>
    /\ main_results = <<>>
    /\ mpc = "off"
    /\ primes = 0
    /\ started = <<>>
    /\ printed = <<>>
    /\ main_exit = -1
    /\ returncode = <<>>

----------------------------------------------------------------------------
(* Initial state: a new source video in the workspace, nothing else *)

InitPipe ==
    /\ fs = {"src"}
    /\ disk = NullDoc
    /\ pdisk = NullDoc
    /\ pc = "idle"
    /\ cur = 0
    /\ upload = TRUE
    /\ skip_platforms = {}
    /\ sidecar = NullDoc
    /\ excKind = "none"
    /\ usidecar = NullDoc
    /\ ngrok_up = FALSE
    /\ skip = {}
    /\ results = [n \in Targets |-> NoRes]
    /\ wst = [n \in Targets |-> "none"]
    /\ exit_code = -1
    /\ executed = {}
    /\ hadStable = {}
    /\ finalAtStart = FALSE
    /\ failedStep = 0
    /\ active = {}
    /\ invoked = {}
    /\ doneAtBegin = {}
    /\ outcome = [n \in Targets |-> "none"]
    /\ failedAtBegin = {}
    /\ crashedIn = 0
    /\ resumeFrom = 0

Init ==
    /\ InitPipe
    /\ crashes = 0
    /\ WriteIdle
    /\ BatchIdle
    /\ PollIdle
    /\ DisplayIdle

stepVars == <<sidecar, excKind, executed, hadStable, failedStep, active>>
runArgs == <<upload, skip_platforms, finalAtStart, crashedIn, resumeFrom, crashes>>
uploadVars == <<usidecar, ngrok_up, skip, results, wst, invoked, doneAtBegin,
               failedAtBegin, outcome>>

----------------------------------------------------------------------------
(* process_video: start of a run *)

StartRun(u, sp) ==
    /\ pc = "idle"
    /\ upload' = u
    /\ skip_platforms' = sp
    /\ sidecar' = [_read_sidecar EXCEPT !.status = "in_progress"]
    /\ disk' = sidecar'
    /\ fs' = fs \cup {"sidecar"}
    /\ pc' = "check"
    /\ cur' = 1
    /\ exit_code' = -1
    /\ excKind' = "none"
    /\ usidecar' = NullDoc
    /\ ngrok_up' = FALSE
    /\ skip' = {}
    /\ results' = [n \in Targets |-> NoRes]
    /\ wst' = [n \in Targets |-> "none"]
    /\ executed' = {}
    /\ hadStable' = {}
    /\ finalAtStart' = ("final" \in fs)
    /\ failedStep' = 0
    /\ active' = {}
    /\ invoked' = {}
    /\ doneAtBegin' = {}
    /\ failedAtBegin' = {}
    /\ outcome' = [n \in Targets |-> "none"]
    /\ resumeFrom' = crashedIn
    /\ crashedIn' = 0
    /\ UNCHANGED <<pdisk, crashes>>
    /\ UNCHANGED <<writeVars, batchVars, pollVars, dispVars>>

----------------------------------------------------------------------------
(* process_video: the three checkpointed steps *)

\* mutant: a step's own checkpoint is not looked at, only the later ones
CheckpointsOf_LaterOnly(s) == {StableOf[t] : t \in (s + 1)..3}

\* mutant: the in-progress file of a step counts as its checkpoint
CheckpointsOf_WithTmp(s) == {StableOf[t] : t \in s..3} \cup {TmpOf[s]}

\* mutant: only a step's own stable artifact is looked at
CheckpointsOf_OwnOnly(s) == {StableOf[s]}

\* the paths whose existence makes process_video skip step s
CheckpointsOf(s) == {StableOf[t] : t \in s..3}

\* mutant: every step is taken as already done
CheckpointExists_Always(s) == TRUE

\* `if os.path.exists(output_path) or os.path.exists(novocals_path) or ...`
CheckpointExists(s) == CheckpointsOf(s) \cap fs # {}

\* control after step s was skipped or completed
Advance ==
    IF cur = 3
    THEN pc' = "gate" /\ cur' = 0
    ELSE pc' = "check" /\ cur' = cur + 1

\* the `if os.path.exists(...)` branch: "skipped (checkpoint exists)"
SkipStep ==
    /\ pc = "check"
    /\ CheckpointExists(cur)
    /\ Advance
    /\ hadStable' = (IF StableOf[cur] \in fs THEN hadStable \cup {cur} ELSE hadStable)
    /\ UNCHANGED <<fs, disk, pdisk, sidecar, excKind, executed, failedStep, active,
                   exit_code>>
    /\ UNCHANGED runArgs
    /\ UNCHANGED uploadVars
    /\ UNCHANGED <<writeVars, batchVars, pollVars, dispVars>>

\* the else branch up to the call of step_fn: _run_step records in_progress
BeginStep ==
    /\ pc = "check"
    /\ ~CheckpointExists(cur)
    /\ sidecar' = [sidecar EXCEPT !.steps[StepName[cur]] = InProgressRec]
    /\ disk' = sidecar'
    /\ fs' = fs \cup {"sidecar"}
    /\ pc' = "run"
    /\ executed' = executed \cup {cur}
    /\ active' = active \cup {cur}
    /\ hadStable' = (IF StableOf[cur] \in fs THEN hadStable \cup {cur} ELSE hadStable)
    /\ UNCHANGED <<pdisk, cur, excKind, failedStep, exit_code>>
    /\ UNCHANGED runArgs
    /\ UNCHANGED uploadVars
    /\ UNCHANGED <<writeVars, batchVars, pollVars, dispVars>>

\* the running transform creates (part of) its output at the in-progress path
TransformWrite ==
    /\ pc = "run"
    /\ InputOf[cur] \in fs
    /\ TmpOf[cur] \notin fs
    /\ fs' = fs \cup {TmpOf[cur]}
    /\ UNCHANGED <<disk, pdisk, pc, cur, exit_code>>
    /\ UNCHANGED stepVars
    /\ UNCHANGED runArgs
    /\ UNCHANGED uploadVars
    /\ UNCHANGED <<writeVars, batchVars, pollVars, dispVars>>

\* step_fn returns and os.replace(tmp_path, stable_path) promotes the output
PromoteStep ==
    /\ pc = "run"
    /\ InputOf[cur] \in fs
    /\ fs' = (fs \ {TmpOf[cur]}) \cup {StableOf[cur]}
    /\ pc' = "promoted"
    /\ active' = active \ {cur}
    /\ UNCHANGED <<disk, pdisk, cur, sidecar, excKind, executed, hadStable,
                   failedStep, exit_code>>
    /\ UNCHANGED runArgs
    /\ UNCHANGED uploadVars
    /\ UNCHANGED <<writeVars, batchVars, pollVars, dispVars>>

\* _run_step records done and returns
RecordDone ==
    /\ pc = "promoted"
    /\ sidecar' = [sidecar EXCEPT !.steps[StepName[cur]] = DoneRec]
    /\ disk' = sidecar'
    /\ fs' = fs \cup {"sidecar"}
    /\ Advance
    /\ UNCHANGED <<pdisk, excKind, executed, hadStable, failedStep, active, exit_code>>
    /\ UNCHANGED runArgs
    /\ UNCHANGED uploadVars
    /\ UNCHANGED <<writeVars, batchVars, pollVars, dispVars>>

\* step_fn raises: `except BaseException` records failed in the sidecar
RecordFailed(kind) ==
    /\ pc = "run"
    /\ sidecar' = [sidecar EXCEPT !.steps[StepName[cur]] = FailedRec(StepErrorMsg(kind))]
    /\ disk' = sidecar'
    /\ fs' = fs \cup {"sidecar"}
    /\ excKind' = kind
    /\ failedStep' = cur
    /\ active' = active \ {cur}
    /\ pc' = "failing"
    /\ UNCHANGED <<pdisk, cur, executed, hadStable, exit_code>>
    /\ UNCHANGED runArgs
    /\ UNCHANGED uploadVars
    /\ UNCHANGED <<writeVars, batchVars, pollVars, dispVars>>

\* mutant: the in-progress file is left behind
RemoveTmp_Keep ==
    /\ pc = "failing"
    /\ pc' = "handler"
    /\ UNCHANGED <<fs, disk, pdisk, cur, exit_code>>
    /\ UNCHANGED stepVars
    /\ UNCHANGED runArgs
    /\ UNCHANGED uploadVars
    /\ UNCHANGED <<writeVars, batchVars, pollVars, dispVars>>

\* ... then removes the in-progress file and re-raises
RemoveTmp ==
    /\ pc = "failing"
    /\ fs' = fs \ {TmpOf[cur]}
    /\ pc' = "handler"
    /\ UNCHANGED <<disk, pdisk, cur, exit_code>>
    /\ UNCHANGED stepVars
    /\ UNCHANGED runArgs
    /\ UNCHANGED uploadVars
    /\ UNCHANGED <<writeVars, batchVars, pollVars, dispVars>>

\* mutant: only `except Exception` marks the run failed
HandlerDoc_ExceptionOnly(kind) ==
    IF kind = "Exception" THEN [_read_sidecar EXCEPT !.status = "failed"] ELSE _read_sidecar

\* the document process_video's handlers write for an exception of this kind
HandlerDoc(kind) ==
    CASE kind = "SystemExit" ->
            IF _read_sidecar.status # "failed"
            THEN [_read_sidecar EXCEPT !.status = "failed"]
            ELSE _read_sidecar
      [] kind = "Exception" -> [_read_sidecar EXCEPT !.status = "failed"]
      [] OTHER -> _read_sidecar

\* the exit status of the process for an exception of this kind
HandlerExit(kind) == IF kind = "KeyboardInterrupt" THEN 130 ELSE 1

\* `except SystemExit` / `except Exception` of process_video; a
\* KeyboardInterrupt is caught by neither and ends the process
Handler ==
    /\ pc = "handler"
    /\ sidecar' = NullDoc
    /\ IF excKind = "KeyboardInterrupt"
       THEN UNCHANGED <<fs, disk>>
       ELSE /\ disk' = HandlerDoc(excKind)
            /\ fs' = fs \cup {"sidecar"}
    /\ exit_code' = HandlerExit(excKind)
    /\ pc' = "idle"
    /\ cur' = 0
    /\ UNCHANGED <<pdisk, excKind, executed, hadStable, failedStep, active>>
    /\ UNCHANGED runArgs
    /\ UNCHANGED uploadVars
    /\ UNCHANGED <<writeVars, batchVars, pollVars, dispVars>>

\* the process is killed between two of its effects
Crash ==
    /\ pc # "idle"
    /\ crashes < MaxCrashes
    /\ crashes' = crashes + 1
    /\ crashedIn' = (IF pc = "run" THEN cur ELSE 0)
    /\ pc' = "idle"
    /\ cur' = 0
    /\ sidecar' = NullDoc
    /\ usidecar' = NullDoc
    /\ wst' = [n \in Targets |-> "none"]
    /\ active' = {}
    /\ exit_code' = 137
    /\ excKind' = "none"
    /\ ngrok_up' = FALSE
    /\ skip' = {}
    /\ results' = [n \in Targets |-> NoRes]
    /\ executed' = {}
    /\ hadStable' = {}
    /\ finalAtStart' = FALSE
    /\ failedStep' = 0
    /\ invoked' = {}
    /\ doneAtBegin' = {}
    /\ failedAtBegin' = {}
    /\ outcome' = [n \in Targets |-> "none"]
    /\ resumeFrom' = 0
    /\ UNCHANGED <<fs, disk, pdisk, upload, skip_platforms>>
    /\ UNCHANGED <<writeVars, batchVars, pollVars, dispVars>>

\* mutant: without upload the run goes on to the archival
NoUpload_Archives ==
    /\ pc = "gate"
    /\ ~upload
    /\ sidecar' = [_read_sidecar EXCEPT !.status = "done"]
    /\ disk' = sidecar'
    /\ fs' = fs \cup {"sidecar"}
    /\ pc' = "move"
    /\ cur' = 1
    /\ UNCHANGED <<pdisk, excKind, executed, hadStable, failedStep, active, exit_code>>
    /\ UNCHANGED runArgs
    /\ UNCHANGED uploadVars
    /\ UNCHANGED <<writeVars, batchVars, pollVars, dispVars>>

\* `if not upload: return output_path`
NoUpload ==
    /\ pc = "gate"
    /\ ~upload
    /\ pc' = "idle"
    /\ exit_code' = 0
    /\ sidecar' = NullDoc
    /\ UNCHANGED <<fs, disk, pdisk, cur, excKind, executed, hadStable, failedStep, active>>
    /\ UNCHANGED runArgs
    /\ UNCHANGED uploadVars
    /\ UNCHANGED <<writeVars, batchVars, pollVars, dispVars>>

----------------------------------------------------------------------------
(* upload_one_video: called by process_video at "[4/4] Uploading" *)

\* the document the threads share: None when the sidecar file is absent
LoadedSidecar == IF "sidecar" \in fs THEN disk ELSE NullDoc

\* `if sidecar:` -- a loaded, non-empty dict
Truthy(doc) == doc # NullDoc

\* mutant: the sidecar is not consulted, nothing is skipped
AlreadyDone_Never(doc) == {}

\* the platforms the sidecar marks done
AlreadyDone(doc) ==
    IF Truthy(doc)
    THEN {n \in Targets : doc.steps[_platform_key(n)].status = "done"}
    ELSE {}

\* lines 74-105: load the sidecar, probe ngrok, compute the skip set
UploadBegin ==
    /\ pc = "gate"
    /\ upload
    /\ usidecar' = LoadedSidecar
    /\ ngrok_up' \in BOOLEAN
    /\ skip' = AlreadyDone(usidecar')
    /\ results' = [n \in Targets |-> IF n \in skip' THEN OkRes ELSE NoRes]
    /\ doneAtBegin' = {n \in Targets : disk.steps[_platform_key(n)].status = "done"}
    /\ failedAtBegin' = {n \in Targets : disk.steps[_platform_key(n)].status = "failed"}
    /\ sidecar' = NullDoc
    /\ pc' = "spawn"
    /\ cur' = 1
    /\ UNCHANGED <<fs, disk, pdisk, excKind, wst, exit_code, executed, hadStable,
                   failedStep, active, invoked, outcome>>
    /\ UNCHANGED runArgs
    /\ UNCHANGED <<writeVars, batchVars, pollVars, dispVars>>

\* _save_sidecar, called with the shared document as it will be
SaveSidecar(doc) ==
    IF Truthy(doc)
    THEN disk' = doc /\ fs' = fs \cup {"sidecar"}
    ELSE UNCHANGED <<disk, fs>>

\* mutant: each worker writes its record into its own copy of the document
WithRecord_OwnCopy(doc, n, rec) ==
    IF doc # NullDoc
    THEN [[status |-> doc.status, steps |-> [k \in Keys |-> NoRec]]
             EXCEPT !.steps[_platform_key(n)] = rec]
    ELSE doc

\* the shared document with the record of platform n replaced
WithRecord(doc, n, rec) ==
    IF Truthy(doc) THEN [doc EXCEPT !.steps[_platform_key(n)] = rec] ELSE doc

\* control after one iteration of `for name, upload_fn in PLATFORMS`
NextPlatform ==
    IF cur = Len(PLATFORMS)
    THEN pc' = "join" /\ cur' = 0
    ELSE pc' = "spawn" /\ cur' = cur + 1

\* mutant: no further thread is started once a failure is in results
Skipped_AfterFailure(n) ==
    \/ n \in skip
    \/ n \in skip_platforms
    \/ \E m \in Targets : results[m].present /\ ~results[m].ok

\* mutant: skip_platforms is not looked at
Skipped_DoneOnly(n) == n \in skip

\* the iteration does nothing for this platform (`continue`)
Skipped(n) == n \in skip \/ n \in skip_platforms

\* mutant: the precheck is ignored
Gated_Never(n) == FALSE

\* the reachability gate of the loop applies to this platform
Gated(n) == n = "Instagram Reels" /\ ~ngrok_up

\* one iteration of the thread-starting loop, lines 163-186
Spawn ==
    /\ pc = "spawn"
    /\ LET n == PLATFORMS[cur] IN
         IF Skipped(n)
         THEN UNCHANGED <<fs, disk, usidecar, results, wst, outcome>>
         ELSE IF Gated(n)
         THEN /\ results' = [results EXCEPT ![n] = FailRes("ngrok not reachable")]
              /\ usidecar' = WithRecord(usidecar, n, GatedRec)
              /\ SaveSidecar(usidecar')
              /\ outcome' = [outcome EXCEPT ![n] = "gated"]
              /\ UNCHANGED wst
         ELSE /\ wst' = [wst EXCEPT ![n] = "started"]
              /\ UNCHANGED <<fs, disk, usidecar, results, outcome>>
    /\ NextPlatform
    /\ UNCHANGED <<pdisk, ngrok_up, skip, exit_code, invoked, doneAtBegin, failedAtBegin>>
    /\ UNCHANGED stepVars
    /\ UNCHANGED runArgs
    /\ UNCHANGED <<writeVars, batchVars, pollVars, dispVars>>

\* _upload, lines 108-119: record in_progress, then call upload_fn
WorkerBegin(n) ==
    /\ pc \in {"spawn", "join"}
    /\ wst[n] = "started"
    /\ usidecar' = WithRecord(usidecar, n, InProgressRec)
    /\ SaveSidecar(usidecar')
    /\ wst' = [wst EXCEPT ![n] = "uploading"]
    /\ invoked' = invoked \cup {n}
    /\ UNCHANGED <<pdisk, pc, cur, ngrok_up, skip, results, exit_code, doneAtBegin,
                   failedAtBegin, outcome>>
    /\ UNCHANGED stepVars
    /\ UNCHANGED runArgs
    /\ UNCHANGED <<writeVars, batchVars, pollVars, dispVars>>

\* _upload, lines 120-131: upload_fn returned
WorkerOk(n) ==
    /\ pc \in {"spawn", "join"}
    /\ wst[n] = "uploading"
    /\ results' = [results EXCEPT ![n] = OkRes]
    /\ usidecar' = WithRecord(usidecar, n, DoneRec)
    /\ SaveSidecar(usidecar')
    /\ wst' = [wst EXCEPT ![n] = "finished"]
    /\ outcome' = [outcome EXCEPT ![n] = "ok"]
    /\ UNCHANGED <<pdisk, pc, cur, ngrok_up, skip, exit_code, invoked, doneAtBegin,
                   failedAtBegin>>
    /\ UNCHANGED stepVars
    /\ UNCHANGED runArgs
    /\ UNCHANGED <<writeVars, batchVars, pollVars, dispVars>>

\* _upload, lines 132-160: upload_fn raised SystemExit or an Exception
WorkerFail(n, kind) ==
    /\ pc \in {"spawn", "join"}
    /\ wst[n] = "uploading"
    /\ results' = [results EXCEPT ![n] = FailRes(UploadErrorMsg(kind))]
    /\ usidecar' = WithRecord(usidecar, n, FailedRec(UploadErrorMsg(kind)))
    /\ SaveSidecar(usidecar')
    /\ wst' = [wst EXCEPT ![n] = "finished"]
    /\ outcome' = [outcome EXCEPT ![n] = kind]
    /\ UNCHANGED <<pdisk, pc, cur, ngrok_up, skip, exit_code, invoked, doneAtBegin,
                   failedAtBegin>>
    /\ UNCHANGED stepVars
    /\ UNCHANGED runArgs
    /\ UNCHANGED <<writeVars, batchVars, pollVars, dispVars>>

\* mutant: only the thread started last is joined
AllJoined_LastOnly == wst[PLATFORMS[Len(PLATFORMS)]] \in {"none", "finished"}

\* `for t in threads: t.join()` has returned for every started thread
AllJoined == \A n \in Targets : wst[n] \in {"none", "finished"}

\* lines 188-203: join the threads, print the summary, return results
Join ==
    /\ pc = "join"
    /\ AllJoined
    /\ pc' = "uploaded"
    /\ usidecar' = NullDoc
    /\ UNCHANGED <<fs, disk, pdisk, cur, ngrok_up, skip, results, wst, exit_code,
                   invoked, doneAtBegin, failedAtBegin, outcome>>
    /\ UNCHANGED stepVars
    /\ UNCHANGED runArgs
    /\ UNCHANGED <<writeVars, batchVars, pollVars, dispVars>>

----------------------------------------------------------------------------
(* process_video: after upload_one_video returned *)

\* mutant: `all` instead of `any`
AnyFailed_All == \A n \in Targets : results[n].present /\ ~results[n].ok

\* `any(not ok for ok, _ in results.values())`
AnyFailed == \E n \in Targets : results[n].present /\ ~results[n].ok

\* mutant: the status is written but sys.exit(1) is missing
FinishFailed_NoExit ==
    /\ pc = "uploaded"
    /\ AnyFailed
    /\ disk' = [_read_sidecar EXCEPT !.status = "failed"]
    /\ fs' = fs \cup {"sidecar"}
    /\ pc' = "move"
    /\ cur' = 1
    /\ UNCHANGED <<pdisk, exit_code>>
    /\ UNCHANGED stepVars
    /\ UNCHANGED runArgs
    /\ UNCHANGED uploadVars
    /\ UNCHANGED <<writeVars, batchVars, pollVars, dispVars>>

\* lines 176-182: a target failed
FinishFailed ==
    /\ pc = "uploaded"
    /\ AnyFailed
    /\ disk' = [_read_sidecar EXCEPT !.status = "failed"]
    /\ fs' = fs \cup {"sidecar"}
    /\ exit_code' = 1
    /\ pc' = "idle"
    /\ UNCHANGED <<pdisk, cur>>
    /\ UNCHANGED stepVars
    /\ UNCHANGED runArgs
    /\ UNCHANGED uploadVars
    /\ UNCHANGED <<writeVars, batchVars, pollVars, dispVars>>

\* lines 184-190: full success, status done
FinishDone ==
    /\ pc = "uploaded"
    /\ ~AnyFailed
    /\ sidecar' = [_read_sidecar EXCEPT !.status = "done"]
    /\ disk' = sidecar'
    /\ fs' = fs \cup {"sidecar"}
    /\ pc' = "move"
    /\ cur' = 1
    /\ UNCHANGED <<pdisk, excKind, executed, hadStable, failedStep, active, exit_code>>
    /\ UNCHANGED runArgs
    /\ UNCHANGED uploadVars
    /\ UNCHANGED <<writeVars, batchVars, pollVars, dispVars>>

\* the files moved to processed/, in order, and their destinations
MoveSrc == <<"src", "final", "sidecar">>
MoveDest == <<"p_src", "p_final", "p_sidecar">>

\* one iteration of `for src in (input_path, output_path, sidecar_path)`
MoveOne ==
    /\ pc = "move"
    /\ IF MoveSrc[cur] \in fs
       THEN /\ fs' = (fs \ {MoveSrc[cur]}) \cup {MoveDest[cur]}
            /\ IF MoveSrc[cur] = "sidecar"
               THEN pdisk' = disk /\ disk' = NullDoc
               ELSE UNCHANGED <<disk, pdisk>>
       ELSE UNCHANGED <<fs, disk, pdisk>>
    /\ IF cur = 3 THEN pc' = "rm" /\ cur' = 1 ELSE pc' = "move" /\ cur' = cur + 1
    /\ UNCHANGED exit_code
    /\ UNCHANGED stepVars
    /\ UNCHANGED runArgs
    /\ UNCHANGED uploadVars
    /\ UNCHANGED <<writeVars, batchVars, pollVars, dispVars>>

\* mutant: the second intermediate is never deleted
Intermediates_CroppedTwice == <<"cropped", "cropped">>

\* the intermediates deleted, in order
Intermediates == <<"cropped", "novocals">>

\* one iteration of `for intermediate in (cropped_path, novocals_path)`; the
\* last one is followed by `return output_path`
RemoveOne ==
    /\ pc = "rm"
    /\ fs' = fs \ {Intermediates[cur]}
    /\ IF cur = 2
       THEN pc' = "idle" /\ cur' = 0 /\ exit_code' = 0 /\ sidecar' = NullDoc
       ELSE pc' = "rm" /\ cur' = cur + 1 /\ UNCHANGED <<exit_code, sidecar>>
    /\ UNCHANGED <<disk, pdisk, excKind, executed, hadStable, failedStep, active>>
    /\ UNCHANGED runArgs
    /\ UNCHANGED uploadVars
    /\ UNCHANGED <<writeVars, batchVars, pollVars, dispVars>>

Next ==
    \/ \E u \in BOOLEAN, sp \in SkipChoices : StartRun(u, sp)
    \/ SkipStep
    \/ BeginStep
    \/ TransformWrite
    \/ PromoteStep
    \/ RecordDone
    \/ \E kind \in StepExcKinds : RecordFailed(kind)
    \/ RemoveTmp
    \/ Handler
    \/ Crash
    \/ NoUpload
    \/ UploadBegin
    \/ Spawn
    \/ \E n \in Targets : WorkerBegin(n)
    \/ \E n \in Targets : WorkerOk(n)
    \/ \E n \in Targets, kind \in UploadExcKinds : WorkerFail(n, kind)
    \/ Join
    \/ FinishFailed
    \/ FinishDone
    \/ MoveOne
    \/ RemoveOne

Spec == Init /\ [][Next]_vars

----------------------------------------------------------------------------
(* Writers of the sidecar file *)

\* an inode no path and no handle refers to
FreeInodes ==
    {i \in Inodes : i # path_ino /\ i # tmp_ino /\ \A w \in Writers : handle[w] # i}

\* mutant: the write is not inside `with sidecar_lock`
LockFree_Always == TRUE

\* `with sidecar_lock:` can be entered
LockFree == sidecar_lock = "free"

\* `with sidecar_lock:` entered, the record set, then open(tmp, "w"): the
\* file at the tmp path is created, or truncated if it exists
OpenTmp(w) ==
    /\ wpos[w] = "idle"
    /\ wcount[w] < WritesPerWorker
    /\ LockFree
    /\ sidecar_lock' = w
    /\ IF tmp_ino # 0
       THEN /\ handle' = [handle EXCEPT ![w] = tmp_ino]
            /\ ino' = [ino EXCEPT ![tmp_ino] = <<>>]
            /\ UNCHANGED tmp_ino
       ELSE \E i \in FreeInodes :
            /\ \A j \in FreeInodes : i <= j
            /\ handle' = [handle EXCEPT ![w] = i]
            /\ ino' = [ino EXCEPT ![i] = <<>>]
            /\ tmp_ino' = i
    /\ offset' = [offset EXCEPT ![w] = 0]
    /\ wpos' = [wpos EXCEPT ![w] = "open"]
    /\ UNCHANGED <<path_ino, wcount, crashes>>
    /\ UNCHANGED <<pipeVars, batchVars, pollVars, dispVars>>

\* json.dump writes the next chunk; after the last one the file is closed
Dump(w) ==
    /\ wpos[w] = "open"
    /\ ino' = [ino EXCEPT ![handle[w]] = WriteAt(@, offset[w], Chunk(w, wcount[w] + 1))]
    /\ offset' = [offset EXCEPT ![w] = @ + 1]
    /\ IF offset[w] + 1 = NChunks
       THEN /\ wpos' = [wpos EXCEPT ![w] = "closed"]
            /\ handle' = [handle EXCEPT ![w] = 0]
       ELSE UNCHANGED <<wpos, handle>>
    /\ UNCHANGED <<path_ino, tmp_ino, sidecar_lock, wcount, crashes>>
    /\ UNCHANGED <<pipeVars, batchVars, pollVars, dispVars>>

\* os.replace(tmp, sidecar_path), then the lock is released; when the tmp
\* path is gone os.replace raises and the lock is released all the same
ReplaceTmp(w) ==
    /\ wpos[w] = "closed"
    /\ IF tmp_ino # 0
       THEN /\ path_ino' = tmp_ino
            /\ tmp_ino' = 0
            /\ ino' = [i \in Inodes |->
                         IF i = path_ino /\ i # tmp_ino /\ \A v \in Writers : handle[v] # i
                         THEN <<>> ELSE ino[i]]
       ELSE UNCHANGED <<path_ino, tmp_ino, ino>>
    /\ sidecar_lock' = (IF sidecar_lock = w THEN "free" ELSE sidecar_lock)
    /\ wpos' = [wpos EXCEPT ![w] = "idle"]
    /\ wcount' = [wcount EXCEPT ![w] = @ + 1]
    /\ UNCHANGED <<handle, offset, crashes>>
    /\ UNCHANGED <<pipeVars, batchVars, pollVars, dispVars>>

\* the process is killed: handles and lock are gone, the files stay; the
\* next process writes the sidecar again
KillWriters ==
    /\ crashes < MaxCrashes
    /\ \E w \in Writers : wpos[w] # "idle"
    /\ crashes' = crashes + 1
    /\ handle' = [w \in Writers |-> 0]
    /\ offset' = [w \in Writers |-> 0]
    /\ sidecar_lock' = "free"
    /\ wpos' = [w \in Writers |-> "idle"]
    /\ wcount' = [w \in Writers |-> 0]
    /\ ino' = [i \in Inodes |-> IF i \in {path_ino, tmp_ino} THEN ino[i] ELSE <<>>]
    /\ UNCHANGED <<path_ino, tmp_ino>>
    /\ UNCHANGED <<pipeVars, batchVars, pollVars, dispVars>>

NextSidecar ==
    \/ \E w \in Writers : OpenTmp(w)
    \/ \E w \in Writers : Dump(w)
    \/ \E w \in Writers : ReplaceTmp(w)
    \/ KillWriters

SpecSidecar == Init /\ [][NextSidecar]_vars

\* what a reader of the sidecar path gets
ReadPath == IF path_ino = 0 THEN <<>> ELSE ino[path_ino]

\* C14 -- Atomic sidecar writes: under every interleaving of the target
\* workers, and with a kill at any point of a write, the file at the sidecar
\* path always holds a complete document.
C14_AtomicSidecarWrites == path_ino # 0 /\ Complete(ReadPath)

\* after a kill, the path holds one worker's document while another worker is
\* half-way through writing the tmp file
C14_Witness ==
    /\ crashes > 0
    /\ ReadPath[1] = Chunk("YouTube Shorts", 2)
    /\ \E w \in Writers : wpos[w] = "open" /\ offset[w] = 1 /\ ~Complete(ino[tmp_ino])

----------------------------------------------------------------------------
(* process_all_videos.py: file names                                        *)
(* A name is the sequence of its characters, so that splitext, endswith,   *)
(* lower and the order of sort are computed on the characters.             *)

Digits == <<"0", "1", "2", "3", "4", "5", "6", "7", "8", "9">>
Upper == <<"A", "B", "C", "D", "E", "F", "G", "H", "I", "J", "K", "L", "M",
           "N", "O", "P", "Q", "R", "S", "T", "U", "V", "W", "X", "Y", "Z">>
Lower == <<"a", "b", "c", "d", "e", "f", "g", "h", "i", "j", "k", "l", "m",
           "n", "o", "p", "q", "r", "s", "t", "u", "v", "w", "x", "y", "z">>

Range(f) == {f[i] : i \in DOMAIN f}

IndexOf(seq, c) == CHOOSE i \in DOMAIN seq : seq[i] = c

\* the code point of a character, the key of str comparison
Code(c) ==
    IF c = "." THEN 46
    ELSE IF c \in Range(Digits) THEN 47 + IndexOf(Digits, c)
    ELSE IF c \in Range(Upper) THEN 64 + IndexOf(Upper, c)
    ELSE IF c = "_" THEN 95
    ELSE 96 + IndexOf(Lower, c)

\* str.lower()
lower(name) ==
    [k \in DOMAIN name |->
        IF name[k] \in Range(Upper) THEN Lower[IndexOf(Upper, name[k])] ELSE name[k]]

\* str.endswith
endswith(name, suffix) ==
    /\ Len(suffix) <= Len(name)
    /\ SubSeq(name, Len(name) - Len(suffix) + 1, Len(name)) = suffix

\* os.path.splitext of a base name: split at the last dot, unless only dots
\* come before it
splitext(entry) ==
    LET dots == {i \in DOMAIN entry : entry[i] = "."}
        d == IF dots = {} THEN 0 ELSE CHOOSE i \in dots : \A j \in dots : j <= i
    IN  IF d > 0 /\ \E i \in 1..(d - 1) : entry[i] # "."
        THEN <<SubSeq(entry, 1, d - 1), SubSeq(entry, d, Len(entry))>>
        ELSE <<entry, <<>>>>

\* a < b for str: the first differing character decides, a prefix is smaller
LexLess(a, b) ==
    \/ /\ Len(a) < Len(b)
       /\ SubSeq(b, 1, Len(a)) = a
    \/ \E k \in 1..(IF Len(a) < Len(b) THEN Len(a) ELSE Len(b)) :
         /\ SubSeq(a, 1, k - 1) = SubSeq(b, 1, k - 1)
         /\ a[k] # b[k]
         /\ Code(a[k]) < Code(b[k])

S_final == <<"_", "f", "i", "n", "a", "l">>
S_cropped == <<"_", "c", "r", "o", "p", "p", "e", "d">>
S_cropped_9_16 == <<"_", "c", "r", "o", "p", "p", "e", "d", "_", "9", "_", "1", "6">>
S_novocals == <<"_", "n", "o", "v", "o", "c", "a", "l", "s">>
S_cropping == <<"_", "c", "r", "o", "p", "p", "i", "n", "g">>
S_scrubbing == <<"_", "s", "c", "r", "u", "b", "b", "i", "n", "g">>
S_normalizing == <<"_", "n", "o", "r", "m", "a", "l", "i", "z", "i", "n", "g">>

KNOWN_SUFFIXES == <<S_final, S_cropped, S_cropped_9_16, S_novocals>>
IN_PROGRESS_SUFFIXES == <<S_cropping, S_scrubbing, S_normalizing>>

E_mp4 == <<".", "m", "p", "4">>
E_mov == <<".", "m", "o", "v">>
E_avi == <<".", "a", "v", "i">>
E_mkv == <<".", "m", "k", "v">>
E_webm == <<".", "w", "e", "b", "m">>

VIDEO_EXTENSIONS == <<E_mp4, E_mov, E_avi, E_mkv, E_webm>>

\* mutant: only the suffixes of stable outputs are looked for
is_already_processed_KnownOnly(entry) ==
    \E suffix \in Range(KNOWN_SUFFIXES) : endswith(splitext(entry)[1], suffix)

is_already_processed(entry) ==
    \E suffix \in Range(KNOWN_SUFFIXES \o IN_PROGRESS_SUFFIXES) :
        endswith(splitext(entry)[1], suffix)

\* the checkpoints of an entry that exist in the folder (line 56)
existing(f, entry) ==
    {suffix \in Range(KNOWN_SUFFIXES) :
        (splitext(entry)[1] \o suffix \o splitext(entry)[2]) \in f}

\* the entries find_unprocessed_videos looks at past is_already_processed
Candidates(f, d) ==
    {entry \in f \ d :
        /\ lower(splitext(entry)[2]) \in Range(VIDEO_EXTENSIONS)
        /\ ~is_already_processed(entry)}

\* list.sort() of a list without duplicates: each name goes to the position
\* given by the number of names smaller than it
SortNames(S) ==
    [i \in 1..Cardinality(S) |->
        CHOOSE x \in S : Cardinality({y \in S : LexLess(y, x)}) = i - 1]

\* every path starts with the same folder, so the paths sort as the entries
find_unprocessed_videos(f, d) ==
    SortNames({entry \in Candidates(f, d) : existing(f, entry) = {}})

\* the entries the "Skipping ..." notice is printed for
Skipping(f, d) == {entry \in Candidates(f, d) : existing(f, entry) # {}}

----------------------------------------------------------------------------
(* Discovery over a folder, and again after a coordinator has written *)

\* largest number of entries of the folder at the start
MaxEntries == 3

E_MOV == <<".", "M", "O", "V">>
E_txt == <<".", "t", "x", "t">>
E_status == <<".", "s", "t", "a", "t", "u", "s", ".", "j", "s", "o", "n">>

SomeEntries ==
    { <<"a">> \o E_mp4,
      <<"B">> \o E_mp4,
      <<"c">> \o E_MOV,
      <<"a">> \o S_cropped \o E_mp4,
      <<"a">> \o S_final \o E_mp4,
      <<"a">> \o S_novocals \o E_mp4,
      <<"a">> \o S_cropped_9_16 \o E_mp4,
      <<"a">> \o S_cropping \o E_mp4,
      <<"B">> \o S_scrubbing \o E_mp4,
      <<"c">> \o S_normalizing \o E_MOV,
      <<"c">> \o S_final \o E_mov,
      <<"a", "_", "F", "i", "n", "a", "l">> \o E_mp4,
      <<"n", "o", "t", "e", "s">> \o E_txt,
      <<"R", "E", "A", "D", "M", "E">>,
      E_mp4 }

\* entries that may be directories
SomeDirs == { <<"B">> \o E_mp4, <<"a">> \o S_cropped \o E_mp4 }

\* the files process_video writes next to its input (lines 98-111)
ProducedNames(entry) ==
    {splitext(entry)[1] \o suffix \o splitext(entry)[2] :
        suffix \in {S_cropping, S_cropped, S_scrubbing, S_novocals,
                    S_normalizing, S_final}}
    \cup {entry \o E_status}

InitDiscover ==
    /\ InitPipe
    /\ crashes = 0
    /\ WriteIdle
    /\ PollIdle
    /\ DisplayIdle
    /\ folder \in {f \in SUBSET SomeEntries : Cardinality(f) <= MaxEntries}
    /\ dirs \in SUBSET (folder \cap SomeDirs)
    /\ videos = <<>>
    /\ notices = {}
    /\ dpc = "start"
    /\ max_workers = 0
    /\ threads = <<>>
    /\ pending = <<>>
    /\ main_active = <<>>
    /\ main_results = <<>>
    /\ mpc = "off"
    /\ primes = 0
    /\ started = <<>>
    /\ printed = <<>>
    /\ main_exit = -1
    /\ returncode = <<>>

mainVars == <<max_workers, threads, pending, main_active, main_results, mpc,
              primes, started, printed, main_exit, returncode>>

\* find_unprocessed_videos(folder), of this batch run or of the next one
Discover ==
    /\ dpc \in {"start", "again"}
    /\ videos' = find_unprocessed_videos(folder, dirs)
    /\ notices' = Skipping(folder, dirs)
    /\ dpc' = (IF dpc = "start" THEN "listed" ELSE "relisted")
    /\ UNCHANGED <<folder, dirs, mainVars>>
    /\ UNCHANGED <<pipeVars, crashes, writeVars, pollVars, dispVars>>

\* the coordinator of a listed item writes one of its files
ArtifactAppears(k, name) ==
    /\ dpc = "listed"
    /\ k \in DOMAIN videos
    /\ name \in ProducedNames(videos[k])
    /\ name \notin folder
    /\ folder' = folder \cup {name}
    /\ dpc' = "again"
    /\ UNCHANGED <<dirs, videos, notices, mainVars>>
    /\ UNCHANGED <<pipeVars, crashes, writeVars, pollVars, dispVars>>

NextDiscover ==
    \/ Discover
    \/ \E k \in 1..(MaxEntries + 1), name \in UNION {ProducedNames(e) : e \in SomeEntries} :
         ArtifactAppears(k, name)

SpecDiscover == InitDiscover /\ [][NextDiscover]_vars

----------------------------------------------------------------------------
(* main of process_all_videos.py: the sliding window of worker threads *)

\* largest number of videos in the folder
MaxItems == 5

\* new videos, in the order they were copied into the folder
SomeVideos ==
    << <<"c">> \o E_MOV,
       <<"a", "_", "2">> \o E_mp4,
       <<"e">> \o E_webm,
       <<"B">> \o E_mp4,
       <<"a">> \o E_mp4,
       <<"d">> \o E_mkv >>

\* the folders of a batch run: the first k of the new videos
SomeFolders ==
    {Range(SubSeq(SomeVideos, 1, k)) :
        k \in 0..(IF MaxItems < Len(SomeVideos) THEN MaxItems ELSE Len(SomeVideos))}

\* the attributes LiveDisplay.__init__ sets
LiveDisplayAttrs ==
    {"slots", "lock", "term_width", "last_line_count", "video_status",
     "video_start", "video_end", "video_result", "steps", "last_output"}

InitBatch ==
    /\ InitPipe
    /\ crashes = 0
    /\ WriteIdle
    /\ PollIdle
    /\ DisplayIdle
    /\ folder \in SomeFolders
    /\ dirs = {}
    /\ videos = <<>>
    /\ notices = {}
    /\ dpc = "off"
    /\ max_workers = 0
    /\ threads = <<>>
    /\ pending = <<>>
    /\ main_active = <<>>
    /\ main_results = <<>>
    /\ mpc = "start"
    /\ primes = 0
    /\ started = <<>>
    /\ printed = <<>>
    /\ main_exit = -1
    /\ returncode = <<>>

discoverVars == <<folder, dirs, videos, notices, dpc>>

\* t.is_alive()
is_alive(t) == threads[t] = "alive"

\* mutant: threads that have ended stay in active
AliveOf_All(seq) == seq

\* [t for t in active if t.is_alive()]
AliveOf(seq) == SelectSeq(seq, is_alive)

\* lines 320-354: discovery, max_workers, the threads, active and pending
BatchSetup ==
    /\ mpc = "start"
    /\ videos' = find_unprocessed_videos(folder, dirs)
    /\ notices' = Skipping(folder, dirs)
    /\ IF videos' = <<>>
       THEN /\ mpc' = "exited"
            /\ main_exit' = 0
            /\ UNCHANGED <<max_workers, threads, pending, main_results, returncode>>
       ELSE /\ max_workers' = (IF Len(videos') < 4 THEN Len(videos') ELSE 4)
            /\ threads' = [i \in 1..Len(videos') |-> "new"]
            /\ pending' = [i \in 1..Len(videos') |-> i]
            /\ main_results' = [i \in 1..Len(videos') |-> "none"]
            /\ returncode' = [i \in 1..Len(videos') |-> -1]
            /\ mpc' = "prime"
            /\ UNCHANGED main_exit
    /\ UNCHANGED <<folder, dirs, dpc, main_active, primes, started, printed>>
    /\ UNCHANGED <<pipeVars, crashes, writeVars, pollVars, dispVars>>

\* mutant: pending.pop() takes the last thread
PopIndex_Last == Len(pending)

\* pending.pop(0)
PopIndex == 1

\* start_next(): pop a pending thread, start it, append it to active
start_next ==
    IF pending # <<>>
    THEN /\ pending' = [i \in 1..(Len(pending) - 1) |->
                           IF i < PopIndex THEN pending[i] ELSE pending[i + 1]]
         /\ threads' = [threads EXCEPT ![pending[PopIndex]] = "alive"]
         /\ main_active' = Append(main_active, pending[PopIndex])
         /\ started' = Append(started, pending[PopIndex])
    ELSE UNCHANGED <<pending, threads, main_active, started>>

\* one iteration of `for _ in range(max_workers): start_next()`
PrimeNext ==
    /\ mpc = "prime"
    /\ primes < max_workers
    /\ start_next
    /\ primes' = primes + 1
    /\ mpc' = (IF primes + 1 = max_workers THEN "loop" ELSE "prime")
    /\ UNCHANGED <<max_workers, main_results, printed, main_exit, discoverVars, returncode>>
    /\ UNCHANGED <<pipeVars, crashes, writeVars, pollVars, dispVars>>

\* `while any(t.is_alive() for t in threads) or pending`, then draw and sleep
LoopTest ==
    /\ mpc = "loop"
    /\ mpc' = (IF (\E t \in DOMAIN threads : is_alive(t)) \/ pending # <<>>
               THEN "filter" ELSE "summary")
    /\ UNCHANGED <<max_workers, threads, pending, main_active, main_results,
                   primes, started, printed, main_exit, discoverVars, returncode>>
    /\ UNCHANGED <<pipeVars, crashes, writeVars, pollVars, dispVars>>

\* line 368: active = [t for t in active if t.is_alive()]
Filter ==
    /\ mpc = "filter"
    /\ main_active' = AliveOf(main_active)
    /\ mpc' = "refill"
    /\ UNCHANGED <<max_workers, threads, pending, main_results, primes, started,
                   printed, main_exit, discoverVars, returncode>>
    /\ UNCHANGED <<pipeVars, crashes, writeVars, pollVars, dispVars>>

\* mutant: after a failure no further thread is let in
HasRoom_NoFailure ==
    /\ Len(main_active) < max_workers
    /\ \A t \in DOMAIN main_results : main_results[t] # "failed"

\* mutant: one more than max_workers is let in
HasRoom_Inclusive == Len(main_active) <= max_workers

\* len(active) < max_workers
HasRoom == Len(main_active) < max_workers

\* lines 369-370: the test of the inner while, and start_next()
Refill ==
    /\ mpc = "refill"
    /\ IF HasRoom /\ pending # <<>>
       THEN /\ start_next
            /\ mpc' = "refilter"
       ELSE /\ mpc' = "loop"
            /\ UNCHANGED <<pending, threads, main_active, started>>
    /\ UNCHANGED <<max_workers, main_results, primes, printed, main_exit, discoverVars, returncode>>
    /\ UNCHANGED <<pipeVars, crashes, writeVars, pollVars, dispVars>>

\* line 371: active = [t for t in active if t.is_alive()]
Refilter ==
    /\ mpc = "refilter"
    /\ main_active' = AliveOf(main_active)
    /\ mpc' = "refill"
    /\ UNCHANGED <<max_workers, threads, pending, main_results, primes, started,
                   printed, main_exit, discoverVars, returncode>>
    /\ UNCHANGED <<pipeVars, crashes, writeVars, pollVars, dispVars>>

\* worker: run_one_live returns, ok iff the subprocess exited with 0, the
\* result is stored and the thread ends
\* the exit codes of process_one_video.py: 0, and 1 of sys.exit(1)
ReturnCodes == {0, 1}

\* mutant: every subprocess that has ended counts as succeeded
run_ok_Ended(rc) == rc >= 0

\* run_one_live line 291: proc.returncode == 0
run_ok(rc) == rc = 0

WorkerFinish(t, rc) ==
    /\ t \in DOMAIN threads
    /\ is_alive(t)
    /\ threads' = [threads EXCEPT ![t] = "dead"]
    /\ returncode' = [returncode EXCEPT ![t] = rc]
    /\ main_results' = [main_results EXCEPT ![t] = IF run_ok(rc) THEN "ok" ELSE "failed"]
    /\ UNCHANGED <<max_workers, pending, main_active, mpc, primes, started,
                   printed, main_exit, discoverVars>>
    /\ UNCHANGED <<pipeVars, crashes, writeVars, pollVars, dispVars>>

succeeded == Cardinality({t \in DOMAIN main_results : main_results[t] = "ok"})
failed_count == Cardinality({t \in DOMAIN main_results : main_results[t] = "failed"})

\* lines 379-385: the tally
Summary ==
    /\ mpc = "summary"
    /\ printed' = Append(printed, <<"tally", succeeded, failed_count>>)
    /\ IF failed_count = 0
       THEN /\ mpc' = "exited"
            /\ main_exit' = 0
       ELSE /\ mpc' = "report"
            /\ UNCHANGED main_exit
    /\ UNCHANGED <<max_workers, threads, pending, main_active, main_results,
                   primes, started, discoverVars, returncode>>
    /\ UNCHANGED <<pipeVars, crashes, writeVars, pollVars, dispVars>>

\* the lines of `for name in names` from position t on
RECURSIVE FailedLogs(_)
FailedLogs(t) ==
    IF t > Len(main_results) THEN <<>>
    ELSE (IF main_results[t] = "failed"
          THEN <<<<"header", t>>, <<"logs", t>>>> ELSE <<>>) \o FailedLogs(t + 1)

\* lines 386-394: the logs of the failed videos, then sys.exit(1); reading an
\* attribute the display does not have raises AttributeError
Report ==
    /\ mpc = "report"
    /\ IF "logs" \in LiveDisplayAttrs
       THEN /\ printed' = printed \o FailedLogs(1)
            /\ mpc' = "exited"
       ELSE /\ printed' = Append(printed,
                 <<"header", CHOOSE t \in DOMAIN main_results :
                     /\ main_results[t] = "failed"
                     /\ \A u \in 1..(t - 1) : main_results[u] # "failed">>)
            /\ mpc' = "raised"
    /\ main_exit' = 1
    /\ UNCHANGED <<max_workers, threads, pending, main_active, main_results,
                   primes, started, discoverVars, returncode>>
    /\ UNCHANGED <<pipeVars, crashes, writeVars, pollVars, dispVars>>

\* the steps of the main thread
MainNext ==
    \/ BatchSetup
    \/ PrimeNext
    \/ LoopTest
    \/ Filter
    \/ Refill
    \/ Refilter
    \/ Summary
    \/ Report

NextBatch ==
    \/ MainNext
    \/ \E t \in 1..(MaxItems + 1), rc \in ReturnCodes : WorkerFinish(t, rc)

SpecBatch == InitBatch /\ [][NextBatch]_vars

\* the main thread keeps running: a step of main that can be taken is taken
SpecBatchFair ==
    /\ SpecBatch
    /\ WF_vars(BatchSetup)
    /\ WF_vars(PrimeNext)
    /\ WF_vars(LoopTest)
    /\ WF_vars(Filter)
    /\ WF_vars(Refill)
    /\ WF_vars(Refilter)
    /\ WF_vars(Summary)
    /\ WF_vars(Report)

\* the main thread keeps running and every subprocess started comes to its
\* end
SpecBatchLive ==
    /\ SpecBatchFair
    /\ \A t \in 1..(MaxItems + 1) : WF_vars(\E rc \in ReturnCodes : WorkerFinish(t, rc))

\* number of worker threads running
NRunning == Cardinality({t \in DOMAIN threads : is_alive(t)})

\* C16 -- Bounded concurrency: at no instant of a batch run are more than
\* max_workers worker threads running, whatever the number of videos.
C16_BoundedConcurrency ==
    mpc \notin {"off", "start"} => (NRunning <= max_workers /\ max_workers <= 4)

\* more videos than workers, all workers busy after one has already finished
C16_Witness ==
    /\ Len(videos) > max_workers
    /\ Len(started) > max_workers
    /\ NRunning = max_workers
    /\ \E t \in DOMAIN threads : threads[t] = "dead"

\* the base name ends with a suffix of a pipeline artifact
ArtifactName(entry) ==
    \E suffix \in {S_final, S_cropped, S_cropped_9_16, S_novocals,
                   S_cropping, S_scrubbing, S_normalizing} :
        endswith(splitext(entry)[1], suffix)

\* C17 -- Discovery enqueues a candidate source even when one of its
\* checkpoints exists: every video file of the folder that is not itself an
\* artifact is in the returned work list.
C17_CheckpointedItemEnqueued ==
    dpc \in {"listed", "relisted"} =>
        \A entry \in folder \ dirs :
            (lower(splitext(entry)[2]) \in Range(VIDEO_EXTENSIONS) /\ ~ArtifactName(entry))
                => entry \in Range(videos)

\* C18 -- Discovery never enqueues a pipeline artifact: no entry of the work
\* list has a base name ending with a derived-output or in-progress suffix,
\* also when the artifacts were written by a running coordinator.
C18_NoArtifactEnqueued ==
    dpc \in {"listed", "relisted"} =>
        \A k \in DOMAIN videos : videos[k] \in folder \ dirs /\ ~ArtifactName(videos[k])

\* the second discovery finds the in-flight file a coordinator wrote and still
\* lists a video
C18_Witness ==
    /\ dpc = "relisted"
    /\ \E entry \in folder : endswith(splitext(entry)[1], S_scrubbing)
    /\ \E entry \in folder : endswith(splitext(entry)[1], S_cropped_9_16)
    /\ videos # <<>>

\* the threads started so far are the first ones of the work list, in order
StartedInOrder == \A k \in DOMAIN started : started[k] = k

\* the work list is in ascending order of str
VideosSorted ==
    \A i, j \in DOMAIN videos : i < j => LexLess(videos[i], videos[j])

\* C19 -- FIFO sliding window: the videos are started in sorted discovery
\* order, and whenever fewer than max_workers workers are running and a video
\* is pending, the first pending video gets started.
C19_FifoSlidingWindow ==
    /\ [](StartedInOrder /\ VideosSorted)
    /\ \A t \in 1..(MaxItems + 1) :
         (pending # <<>> /\ pending[1] = t /\ NRunning < max_workers)
            ~> (t \in DOMAIN threads /\ threads[t] # "new")

\* a video beyond the first max_workers is started after an earlier one ended,
\* with names whose order depends on the code points
C19_Witness ==
    /\ Len(started) > max_workers
    /\ max_workers = 4
    /\ <<"B">> \o E_mp4 \in Range(videos)
    /\ <<"a", "_", "2">> \o E_mp4 \in Range(videos)
    /\ <<"a">> \o E_mp4 \in Range(videos)
    /\ NRunning < max_workers

\* C21 -- Batch exit code: the batch run exits with 0 if the subprocess of
\* every video exited with 0, and with 1 if at least one did not; a video
\* counts as succeeded iff its subprocess exited with 0.
C21_BatchExitCode ==
    /\ \A t \in DOMAIN main_results :
          /\ main_results[t] = "ok" <=> (returncode[t] = 0)
          /\ main_results[t] = "failed" <=> (returncode[t] \notin {0, -1})
    /\ mpc \in {"exited", "raised"} =>
          main_exit = (IF \E t \in DOMAIN returncode : returncode[t] # 0 THEN 1 ELSE 0)

\* a batch of several videos has ended, one failed and one succeeded
C21_Witness ==
    /\ mpc \in {"exited", "raised"}
    /\ main_exit = 1
    /\ \E t \in DOMAIN returncode : returncode[t] = 1
    /\ \E t \in DOMAIN returncode : returncode[t] = 0

\* C20 -- At the end of a batch run with a failed video the tally is printed,
\* then the log lines of every failed video, and no error is raised.
C20_FailureReportCompletes ==
    (mpc \in {"exited", "raised"} /\ failed_count > 0) =>
        /\ mpc = "exited"
        /\ printed = <<<<"tally", succeeded, failed_count>>>> \o FailedLogs(1)

----------------------------------------------------------------------------
(* The polling loops of the publish targets:                               *)
(* wait_for_container of instagram_upload.py, _poll_status of              *)
(* tiktok_upload.py, and the handler of _upload they exit into             *)

Pollers == {"instagram", "tiktok"}

\* seconds between status checks
POLL_INTERVAL(p) == IF p = "instagram" THEN 30 ELSE 5

\* seconds after which the loop gives up
POLL_TIMEOUT(p) == IF p = "instagram" THEN 600 ELSE 300

MAX_RATE_LIMIT_RETRIES == 5

\* longest time a status request takes, in seconds
MaxLatency == 1

\* the clock value past which the model lets no sleep begin
MaxClock == 1000

\* what a status request can come back with: an HTTPError, with or without
\* a rate-limit body, or a document with a status
Responses(p) ==
    IF p = "instagram"
    THEN {"rate_limited", "http_error", "IN_PROGRESS", "FINISHED", "ERROR"}
    ELSE {"http_error", "PROCESSING_UPLOAD", "PUBLISH_COMPLETE", "FAILED"}

\* the statuses that end the loop with success, and with sys.exit(1)
SuccessStatus == {"FINISHED", "PUBLISH_COMPLETE"}
FailureStatus == {"ERROR", "FAILED"}

InitPoll ==
    /\ InitPipe
    /\ crashes = 0
    /\ WriteIdle
    /\ BatchIdle
    /\ DisplayIdle
    /\ pplat \in Pollers
    /\ clock = 0
    /\ ppc = "top"
    /\ rate_limit_retries = 0
    /\ streak = 0
    /\ delays = <<>>
    /\ nreq = 0
    /\ cause = "none"
    /\ poll_error = "none"

\* mutant: the elapsed time is never looked at
Expired_Never == FALSE

\* elapsed > POLL_TIMEOUT
Expired == clock > POLL_TIMEOUT(pplat)

\* top of an iteration: the elapsed time is compared with POLL_TIMEOUT
PollTop ==
    /\ ppc = "top"
    /\ IF Expired
       THEN /\ ppc' = "exited"
            /\ cause' = "timeout"
       ELSE /\ ppc' = "request"
            /\ UNCHANGED cause
    /\ UNCHANGED <<pplat, clock, rate_limit_retries, streak, delays, nreq, poll_error>>
    /\ UNCHANGED <<pipeVars, crashes, writeVars, batchVars, dispVars>>

\* mutant: a response without error leaves the counter as it is
RetriesAfterSuccess_Kept == rate_limit_retries

\* line 151: rate_limit_retries = 0  # reset on success
RetriesAfterSuccess == 0

\* the status request, taking lat seconds, and what the loop does with the
\* response up to its next sleep
PollRequest(resp, lat) ==
    /\ ppc = "request"
    /\ resp \in Responses(pplat)
    /\ nreq' = nreq + 1
    /\ clock' = clock + lat
    /\ IF resp = "rate_limited"
       THEN /\ rate_limit_retries' = rate_limit_retries + 1
            /\ streak' = streak + 1
            /\ IF rate_limit_retries + 1 > MAX_RATE_LIMIT_RETRIES
               THEN /\ ppc' = "exited"
                    /\ cause' = "rate_limit"
               ELSE /\ ppc' = "backoff"
                    /\ UNCHANGED cause
       ELSE IF resp = "http_error"
       THEN /\ ppc' = "exited"
            /\ cause' = "http_error"
            /\ UNCHANGED <<rate_limit_retries, streak>>
       ELSE /\ rate_limit_retries' = RetriesAfterSuccess
            /\ UNCHANGED streak
            /\ IF resp \in SuccessStatus
               THEN /\ ppc' = "returned"
                    /\ UNCHANGED cause
               ELSE IF resp \in FailureStatus
               THEN /\ ppc' = "exited"
                    /\ cause' = "remote_error"
               ELSE /\ ppc' = "sleep"
                    /\ UNCHANGED cause
    /\ UNCHANGED <<pplat, delays, poll_error>>
    /\ UNCHANGED <<pipeVars, crashes, writeVars, batchVars, dispVars>>

\* backoff = 60 * rate_limit_retries; time.sleep(backoff); continue
PollBackoff ==
    /\ ppc = "backoff"
    /\ clock <= MaxClock
    /\ delays' = Append(delays, 60 * rate_limit_retries)
    /\ clock' = clock + 60 * rate_limit_retries
    /\ ppc' = "top"
    /\ UNCHANGED <<pplat, rate_limit_retries, streak, nreq, cause, poll_error>>
    /\ UNCHANGED <<pipeVars, crashes, writeVars, batchVars, dispVars>>

\* time.sleep(POLL_INTERVAL)
PollSleep ==
    /\ ppc = "sleep"
    /\ clock <= MaxClock
    /\ clock' = clock + POLL_INTERVAL(pplat)
    /\ ppc' = "top"
    /\ streak' = 0
    /\ delays' = <<>>
    /\ UNCHANGED <<pplat, rate_limit_retries, nreq, cause, poll_error>>
    /\ UNCHANGED <<pipeVars, crashes, writeVars, batchVars, dispVars>>

\* _upload, `except SystemExit`: the failed record of the target
UploadExit ==
    /\ ppc = "exited"
    /\ poll_error' = UploadErrorMsg("SystemExit")
    /\ ppc' = "recorded"
    /\ UNCHANGED <<pplat, clock, rate_limit_retries, streak, delays, nreq, cause>>
    /\ UNCHANGED <<pipeVars, crashes, writeVars, batchVars, dispVars>>

NextPoll ==
    \/ PollTop
    \/ \E resp \in Responses("instagram") \cup Responses("tiktok"), lat \in 0..MaxLatency :
         PollRequest(resp, lat)
    \/ PollBackoff
    \/ PollSleep
    \/ UploadExit

SpecPoll == InitPoll /\ [][NextPoll]_vars

\* the worker keeps running and every status request comes back
SpecPollFair ==
    /\ SpecPoll
    /\ WF_vars(PollTop)
    /\ WF_vars(\E resp \in Responses("instagram") \cup Responses("tiktok"),
                  lat \in 0..MaxLatency : PollRequest(resp, lat))
    /\ WF_vars(PollBackoff)
    /\ WF_vars(PollSleep)
    /\ WF_vars(UploadExit)

\* the delays 60, 120, ..., 60 * k
LinearDelays(k) == [n \in 1..k |-> 60 * n]

\* what the loop prints when it gives up
PrintedReason(c) ==
    IF c = "timeout" THEN "Timed out waiting"
    ELSE IF c = "rate_limit" THEN "Rate-limited - giving up"
    ELSE IF c = "remote_error" THEN "processing failed"
    ELSE "Poll error"

\* C22 -- Rate-limit backoff: after k rate-limit errors in a row, k up to the
\* cap of 5, a success finds exactly k backoff delays done, the n-th of
\* 60 * n seconds; up to the cap the worker keeps retrying, and on the first
\* rate-limit error beyond the cap it gives up and the target fails.
C22_RateLimitBackoff ==
    /\ (ppc \in {"returned", "sleep"} /\ streak <= MAX_RATE_LIMIT_RETRIES)
          => delays = LinearDelays(streak)
    /\ (ppc = "exited" /\ streak \in 1..MAX_RATE_LIMIT_RETRIES)
          => cause \in {"http_error", "remote_error"}
    /\ streak > MAX_RATE_LIMIT_RETRIES => (ppc \in {"exited", "recorded"} /\ cause = "rate_limit")

\* C23 -- Every publish failure is recorded with a reason that identifies its
\* cause: a polling timeout with a timeout reason, an exceeded rate-limit cap
\* with a rate-limit reason.
C23_FailureReasonRecorded ==
    (ppc = "recorded" /\ cause \in {"timeout", "rate_limit"})
        => poll_error = PrintedReason(cause)

\* the loop has ended
PollEnded == ppc \in {"returned", "exited", "recorded"}

\* C24 -- Polling timeout: each polling loop ends whatever the remote answers;
\* once the elapsed time exceeds POLL_TIMEOUT at the top of an iteration no
\* status request follows and the target fails, with no retry in this run.
C24_PollingTerminates ==
    /\ <>(ppc \in {"returned", "recorded"})
    /\ [][(ppc = "top" /\ clock > POLL_TIMEOUT(pplat))
            => (ppc' = "exited" /\ cause' = "timeout" /\ nreq' = nreq)]_vars
    /\ [][PollEnded => (PollEnded' /\ nreq' = nreq /\ ppc' # "returned")]_vars
    /\ [](ppc = "recorded" => poll_error # "none")

\* the TikTok loop has given up after its timeout, having polled all the time
C24_Witness ==
    /\ pplat = "tiktok"
    /\ ppc = "recorded"
    /\ cause = "timeout"
    /\ nreq > 50

----------------------------------------------------------------------------
(* The live display of a batch run: LiveDisplay, the workers in            *)
(* run_one_live and main's draw loop, for a batch whose videos all start   *)
(* at once (no more than four of them)                                     *)

\* number of videos of the batch
NLive == 2

LiveVideos == 1..NLive

\* len(PIPELINE_STEPS)
NSteps == 4

InitReporter ==
    /\ InitPipe
    /\ crashes = 0
    /\ WriteIdle
    /\ BatchIdle
    /\ PollIdle
    /\ display_lock = 0
    /\ video_status = [v \in LiveVideos |-> "waiting"]
    /\ step_status = [v \in LiveVideos |-> [i \in 1..NSteps |-> "waiting"]]
    /\ wkpc = [v \in LiveVideos |-> "new"]
    /\ current_step = [v \in LiveVideos |-> -1]
    /\ proc_rc = [v \in LiveVideos |-> -1]
    /\ live_results = [v \in LiveVideos |-> "none"]
    /\ rpc = "idle"
    /\ rv = 0
    /\ snap = "none"
    /\ lines = <<>>
    /\ dmain = "draw_first"
    /\ dexit = -1

workerVars == <<video_status, step_status, wkpc, current_step, proc_rc, live_results>>
drawVars == <<rpc, rv, snap, lines>>

\* `with self.lock:` can be entered
DisplayLockFree == display_lock = 0

\* main: t.start() for the threads, in the order of videos
StartThread ==
    /\ dmain = "prime"
    /\ LET v == CHOOSE u \in LiveVideos :
                   wkpc[u] = "new" /\ \A w \in 1..(u - 1) : wkpc[w] # "new"
       IN  /\ wkpc' = [wkpc EXCEPT ![v] = "start_video"]
           /\ dmain' = (IF v = NLive THEN "loop" ELSE "prime")
    /\ UNCHANGED <<display_lock, video_status, step_status, current_step, proc_rc,
                   live_results, drawVars, dexit>>
    /\ UNCHANGED <<pipeVars, crashes, writeVars, batchVars, pollVars>>

\* run_one_live line 246: display.start_video(name), then Popen
StartVideo(v) ==
    /\ wkpc[v] = "start_video"
    /\ DisplayLockFree
    /\ video_status' = [video_status EXCEPT ![v] = "running"]
    /\ wkpc' = [wkpc EXCEPT ![v] = "reading"]
    /\ UNCHANGED <<display_lock, step_status, current_step, proc_rc, live_results,
                   drawVars, dmain, dexit>>
    /\ UNCHANGED <<pipeVars, crashes, writeVars, batchVars, pollVars>>

\* the step marker the subprocess can print next (process_one_video prints
\* [1/4], [2/4], [3/4] for a step run or skipped, then [4/4] when it uploads)
NextMarkers(v) == {k \in 1..NSteps : k = current_step[v] + 2}

\* the exit codes the subprocess can end with: 0 once the three transforms
\* are over, not 0 at any point
ExitCodes(v) == {rc \in ReturnCodes : run_ok(rc) => current_step[v] >= NSteps - 2}

\* lines 264-286: a line with the marker [k/4] is read: set_output, then
\* finish_step of the current step if there is one
StepLine(v, k) ==
    /\ wkpc[v] = "reading"
    /\ k \in NextMarkers(v)
    /\ DisplayLockFree
    /\ step_status' = [step_status EXCEPT ![v] =
                          IF k > 1 /\ current_step[v] >= 0
                          THEN [@ EXCEPT ![current_step[v] + 1] = "done"] ELSE @]
    /\ current_step' = [current_step EXCEPT ![v] = k - 1]
    /\ wkpc' = [wkpc EXCEPT ![v] = "start_step"]
    /\ UNCHANGED <<display_lock, video_status, proc_rc, live_results, drawVars,
                   dmain, dexit>>
    /\ UNCHANGED <<pipeVars, crashes, writeVars, batchVars, pollVars>>

\* display.start_step(name, current_step)
StartStep(v) ==
    /\ wkpc[v] = "start_step"
    /\ DisplayLockFree
    /\ step_status' = [step_status EXCEPT ![v][current_step[v] + 1] = "running"]
    /\ wkpc' = [wkpc EXCEPT ![v] = "reading"]
    /\ UNCHANGED <<display_lock, video_status, current_step, proc_rc, live_results,
                   drawVars, dmain, dexit>>
    /\ UNCHANGED <<pipeVars, crashes, writeVars, batchVars, pollVars>>

\* the subprocess ends: proc.stdout is at its end and proc.wait() returns
ProcExit(v, rc) ==
    /\ wkpc[v] = "reading"
    /\ rc \in ExitCodes(v)
    /\ proc_rc' = [proc_rc EXCEPT ![v] = rc]
    /\ wkpc' = [wkpc EXCEPT ![v] =
                  IF run_ok(rc) /\ current_step[v] >= 0 THEN "finish_step"
                  ELSE "finish_video"]
    /\ UNCHANGED <<display_lock, video_status, step_status, current_step,
                   live_results, drawVars, dmain, dexit>>
    /\ UNCHANGED <<pipeVars, crashes, writeVars, batchVars, pollVars>>

\* lines 292-293: display.finish_step(name, current_step)
FinishLastStep(v) ==
    /\ wkpc[v] = "finish_step"
    /\ DisplayLockFree
    /\ step_status' = [step_status EXCEPT ![v][current_step[v] + 1] = "done"]
    /\ wkpc' = [wkpc EXCEPT ![v] = "finish_video"]
    /\ UNCHANGED <<display_lock, video_status, current_step, proc_rc, live_results,
                   drawVars, dmain, dexit>>
    /\ UNCHANGED <<pipeVars, crashes, writeVars, batchVars, pollVars>>

\* finish_video, lines 122-125: the lock is taken and video_status is set
FinishVideoStatus(v) ==
    /\ wkpc[v] = "finish_video"
    /\ DisplayLockFree
    /\ display_lock' = v
    /\ video_status' = [video_status EXCEPT ![v] =
                          IF run_ok(proc_rc[v]) THEN "done" ELSE "failed"]
    /\ wkpc' = [wkpc EXCEPT ![v] = "finish_video_steps"]
    /\ UNCHANGED <<step_status, current_step, proc_rc, live_results, drawVars,
                   dmain, dexit>>
    /\ UNCHANGED <<pipeVars, crashes, writeVars, batchVars, pollVars>>

\* mutant: finish_video keeps the lock
LockAfterFinish_Held(v) == v

\* the end of `with self.lock:`
LockAfterFinish(v) == 0

\* mutant: finish_video sets the status of the video only
FinishVideoSteps_StatusOnly(v) ==
    /\ wkpc[v] = "finish_video_steps"
    /\ display_lock' = 0
    /\ wkpc' = [wkpc EXCEPT ![v] = "return"]
    /\ UNCHANGED <<video_status, step_status, current_step, proc_rc, live_results,
                   drawVars, dmain, dexit>>
    /\ UNCHANGED <<pipeVars, crashes, writeVars, batchVars, pollVars>>

\* finish_video, lines 127-130: the running steps are closed, the lock is
\* released
FinishVideoSteps(v) ==
    /\ wkpc[v] = "finish_video_steps"
    /\ step_status' = [step_status EXCEPT ![v] =
                          [i \in 1..NSteps |->
                              IF @[i] = "running"
                              THEN (IF run_ok(proc_rc[v]) THEN "done" ELSE "failed")
                              ELSE @[i]]]
    /\ display_lock' = LockAfterFinish(v)
    /\ wkpc' = [wkpc EXCEPT ![v] = "return"]
    /\ UNCHANGED <<video_status, current_step, proc_rc, live_results, drawVars,
                   dmain, dexit>>
    /\ UNCHANGED <<pipeVars, crashes, writeVars, batchVars, pollVars>>

\* run_one_live returns, worker stores the result, the thread ends
WorkerReturn(v) ==
    /\ wkpc[v] = "return"
    /\ live_results' = [live_results EXCEPT ![v] =
                          IF run_ok(proc_rc[v]) THEN "ok" ELSE "failed"]
    /\ wkpc' = [wkpc EXCEPT ![v] = "dead"]
    /\ UNCHANGED <<display_lock, video_status, step_status, current_step, proc_rc,
                   drawVars, dmain, dexit>>
    /\ UNCHANGED <<pipeVars, crashes, writeVars, batchVars, pollVars>>

\* main is in display.draw()
InDraw == dmain \in {"draw_first", "draw", "draw_last"}

\* draw, line 230: render() is entered
RenderBegin ==
    /\ InDraw
    /\ rpc = "idle"
    /\ rpc' = "status"
    /\ rv' = 1
    /\ lines' = <<>>
    /\ UNCHANGED <<display_lock, workerVars, snap, dmain, dexit>>
    /\ UNCHANGED <<pipeVars, crashes, writeVars, batchVars, pollVars>>

\* render, line 167: vs = self.video_status[name]
RenderStatus ==
    /\ rpc = "status"
    /\ snap' = video_status[rv]
    /\ rpc' = "steps"
    /\ UNCHANGED <<display_lock, workerVars, rv, lines, dmain, dexit>>
    /\ UNCHANGED <<pipeVars, crashes, writeVars, batchVars, pollVars>>

\* the status of the step render shows as current (lines 171-182): the first
\* running one, else the last done or failed one
CurrentShown(steps) ==
    IF \E i \in 1..NSteps : steps[i] = "running" THEN "running"
    ELSE IF \E i \in 1..NSteps : steps[i] \in {"done", "failed"}
    THEN steps[CHOOSE i \in 1..NSteps :
                 /\ steps[i] \in {"done", "failed"}
                 /\ \A j \in (i + 1)..NSteps : steps[j] \notin {"done", "failed"}]
    ELSE "none"

\* render, lines 169-224: the steps of the video are read and its lines built
RenderSteps ==
    /\ rpc = "steps"
    /\ lines' = Append(lines, <<snap, CurrentShown(step_status[rv])>>)
    /\ snap' = "none"
    /\ IF rv = NLive
       THEN rpc' = "write" /\ UNCHANGED rv
       ELSE rpc' = "status" /\ rv' = rv + 1
    /\ UNCHANGED <<display_lock, workerVars, dmain, dexit>>
    /\ UNCHANGED <<pipeVars, crashes, writeVars, batchVars, pollVars>>

\* draw, lines 231-241: the lines are written under the lock; then main goes
\* on: to the threads, to the sleep and the test of the loop, to the summary
DrawWrite ==
    /\ rpc = "write"
    /\ DisplayLockFree
    /\ rpc' = "idle"
    /\ rv' = 0
    /\ lines' = <<>>
    /\ dmain' = (IF dmain = "draw_first" THEN "prime"
                 ELSE IF dmain = "draw" THEN "loop" ELSE "summary")
    /\ UNCHANGED <<display_lock, workerVars, snap, dexit>>
    /\ UNCHANGED <<pipeVars, crashes, writeVars, batchVars, pollVars>>

\* line 365: while any(t.is_alive() for t in threads)
LiveLoopTest ==
    /\ dmain = "loop"
    /\ dmain' = (IF \E v \in LiveVideos : wkpc[v] \notin {"new", "dead"}
                 THEN "draw" ELSE "draw_last")
    /\ UNCHANGED <<display_lock, workerVars, drawVars, dexit>>
    /\ UNCHANGED <<pipeVars, crashes, writeVars, batchVars, pollVars>>

\* lines 379-394: the tally and the end of main: sys.exit(1) after the logs
\* of the failed videos, or AttributeError when the display has no logs
LiveSummary ==
    /\ dmain = "summary"
    /\ dexit' = (IF \E v \in LiveVideos : live_results[v] = "failed" THEN 1 ELSE 0)
    /\ dmain' = (IF /\ \E v \in LiveVideos : live_results[v] = "failed"
                    /\ "logs" \notin LiveDisplayAttrs
                 THEN "raised" ELSE "exited")
    /\ UNCHANGED <<display_lock, workerVars, drawVars>>
    /\ UNCHANGED <<pipeVars, crashes, writeVars, batchVars, pollVars>>

NextReporter ==
    \/ StartThread
    \/ \E v \in LiveVideos : StartVideo(v)
    \/ \E v \in LiveVideos, k \in 1..NSteps : StepLine(v, k)
    \/ \E v \in LiveVideos : StartStep(v)
    \/ \E v \in LiveVideos, rc \in ReturnCodes : ProcExit(v, rc)
    \/ \E v \in LiveVideos : FinishLastStep(v)
    \/ \E v \in LiveVideos : FinishVideoStatus(v)
    \/ \E v \in LiveVideos : FinishVideoSteps(v)
    \/ \E v \in LiveVideos : WorkerReturn(v)
    \/ RenderBegin
    \/ RenderStatus
    \/ RenderSteps
    \/ DrawWrite
    \/ LiveLoopTest
    \/ LiveSummary

SpecReporter == InitReporter /\ [][NextReporter]_vars

\* main and the workers keep running, the subprocess ends; the subprocess may
\* print or not
SpecReporterFair ==
    /\ SpecReporter
    /\ WF_vars(StartThread)
    /\ WF_vars(RenderBegin)
    /\ WF_vars(RenderStatus)
    /\ WF_vars(RenderSteps)
    /\ WF_vars(DrawWrite)
    /\ WF_vars(LiveLoopTest)
    /\ WF_vars(LiveSummary)
    /\ \A v \in LiveVideos :
          /\ WF_vars(StartVideo(v))
          /\ WF_vars(StartStep(v))
          /\ WF_vars(\E rc \in ReturnCodes : ProcExit(v, rc))
          /\ WF_vars(FinishLastStep(v))
          /\ WF_vars(FinishVideoStatus(v))
          /\ WF_vars(FinishVideoSteps(v))
          /\ WF_vars(WorkerReturn(v))

\* what a video shows between two mutations of the display: a waiting video
\* has no step begun, and only a running video has a running step
ConsistentLine(line) ==
    /\ line[1] = "waiting" => line[2] = "none"
    /\ line[2] = "running" => line[1] = "running"
    /\ line[2] = "failed" => line[1] = "failed"

\* C26 -- Live display consistency: render runs under the lock of the
\* mutations, so it never reads while a worker is inside finish_video (or
\* another mutation), and every line it builds shows a state the display was
\* in between two mutations.
C26_RenderConsistent ==
    /\ rpc \in {"status", "steps"} =>
          \A v \in LiveVideos : wkpc[v] # "finish_video_steps"
    /\ \A k \in DOMAIN lines : ConsistentLine(lines[k])

----------------------------------------------------------------------------
(* Properties *)

InFlight == {TmpOf[s] : s \in Steps}

\* C1 -- Idempotent resume: a step whose stable artifact exists when the run
\* reaches it is not executed, and a run that starts with the final artifact
\* of a completed earlier run in place executes no transform at all.
C1_IdempotentResume ==
    /\ executed \cap hadStable = {}
    /\ finalAtStart => executed = {}

\* a second run over a completed, unarchived item has passed all three steps
C1_Witness ==
    /\ pc = "gate"
    /\ finalAtStart
    /\ hadStable = Steps
    /\ executed = {}

\* C2 -- Crash safety: while a step's transform runs its stable artifact does
\* not exist (so a kill leaves none); a stable artifact appears only by the
\* rename after a completed transform; and the run after a kill inside step k
\* executes step k, then the steps after it, and no earlier step.
C2_NoStableWhileRunning == pc = "run" => StableOf[cur] \notin fs

C2_StableOnlyByRename ==
    \A s \in Steps :
        (StableOf[s] \notin fs /\ StableOf[s] \in fs')
            => (pc = "run" /\ cur = s /\ pc' = "promoted" /\ TmpOf[s] \notin fs')

C2_ResumeAtKilledStep ==
    (resumeFrom # 0 /\ pc # "idle") =>
        /\ \A s \in executed : s >= resumeFrom
        /\ (pc \notin {"check"} \/ cur > resumeFrom) => resumeFrom \in executed
        /\ pc = "gate" => executed = resumeFrom..3

C2_CrashSafety ==
    /\ [](C2_NoStableWhileRunning /\ C2_ResumeAtKilledStep)
    /\ [][C2_StableOnlyByRename]_vars

\* the run after a kill inside scrub_voices has redone scrub and normalize only
C2_Witness ==
    /\ resumeFrom = 2
    /\ pc = "gate"
    /\ executed = {2, 3}

\* C3 -- At the start of a run, in-flight artifacts left by a killed earlier
\* run are purged before any step's skip/resume decision is made.
C3_PurgedBeforeDecisions == pc = "check" => fs \cap InFlight = {}

\* C4 -- Step ordering: a step's transform runs only while the previous
\* step's stable artifact exists, and at most one transform of the item is
\* executing at any time.
C4_StepOrdering ==
    /\ (pc = "run" /\ cur = 2) => "cropped" \in fs
    /\ (pc = "run" /\ cur = 3) => "novocals" \in fs
    /\ Cardinality(active) <= 1
    /\ \A s \in active : pc = "run" /\ cur = s

\* normalize is running, after crop and scrub ran in the same run
C4_Witness ==
    /\ pc = "run"
    /\ cur = 3
    /\ executed = Steps
    /\ active = {3}

\* the failures of a transform that the step-failure claims speak of
StepFailureKinds == {"SystemExit", "Exception"}

StepFailed == failedStep # 0 /\ excKind \in StepFailureKinds

\* the process ended by itself (it was not killed, and is not still running)
Exited == pc = "idle" /\ exit_code \in {0, 1, 130}

\* C5 -- When a step's transform fails (exception or SystemExit): no later
\* step is executed in that run, no publish target is invoked, the top-level
\* sidecar status becomes failed, and the run exits non-zero.
C5_StepFailureAborts ==
    StepFailed =>
        /\ executed \subseteq 1..failedStep
        /\ invoked = {}
        /\ pc \in {"failing", "handler", "idle"}
        /\ Exited => (disk.status = "failed" /\ exit_code # 0)

\* the run has ended after scrub_voices exited
C5_Witness ==
    /\ Exited
    /\ failedStep = 2
    /\ excKind = "SystemExit"
    /\ executed = {1, 2}
    /\ disk.status = "failed"

\* C6 -- After a step fails inside _run_step: its in-flight artifact does not
\* exist, its stable artifact has not been created, its sidecar record is
\* failed with an error and a duration, and the error propagates to the caller.
C6_FailedStepCleanedUp ==
    pc = "handler" =>
        /\ TmpOf[cur] \notin fs
        /\ StableOf[cur] \notin fs
        /\ disk.steps[StepName[cur]].status = "failed"
        /\ disk.steps[StepName[cur]].error # "none"
        /\ disk.steps[StepName[cur]].duration
        /\ excKind \in StepExcKinds
        /\ failedStep = cur

\* scrub_voices raised an exception in a run that followed a killed one
C6_Witness ==
    /\ pc = "handler"
    /\ cur = 2
    /\ crashes > 0
    /\ "cropped" \in fs
    /\ disk.steps["scrub_voices"].error = "str(exc)"

TargetRecord(n) == disk.steps[_platform_key(n)]

\* C7 -- Partial publish failure: at the return of the publisher the targets
\* whose call succeeded are recorded done and the one that errored failed; a
\* later run calls publish for the failed target and for no done target.
C7_PartialPublishFailure ==
    /\ invoked \cap doneAtBegin = {}
    /\ pc = "uploaded" =>
        /\ \A n \in Targets :
              /\ outcome[n] = "ok" => TargetRecord(n).status = "done"
              /\ outcome[n] \in UploadExcKinds => TargetRecord(n).status = "failed"
        /\ \A n \in failedAtBegin :
              (n \notin skip_platforms /\ ~(n = "Instagram Reels" /\ ~ngrok_up))
                  => n \in invoked

\* the run after one in which YouTube errored and the two others succeeded
C7_Witness ==
    /\ pc = "uploaded"
    /\ doneAtBegin = {"Instagram Reels", "TikTok"}
    /\ failedAtBegin = {"YouTube Shorts"}
    /\ invoked = {"YouTube Shorts"}

\* the targets for which a run has to start a worker
Attempted ==
    {n \in Targets : /\ n \notin doneAtBegin
                     /\ n \notin skip_platforms
                     /\ ~(n = "Instagram Reels" /\ ~ngrok_up)}

\* C8 -- Publish isolation: whatever the interleaving, a target's failure
\* neither prevents another target's worker from being started nor changes
\* its outcome: every worker reaches the done or failed its own call decides.
C8_PublishIsolation ==
    /\ pc \in {"join", "uploaded"} => \A n \in Attempted : wst[n] # "none"
    /\ \A n \in Targets :
          (wst[n] = "finished" /\ pc \in {"spawn", "join", "uploaded"}) =>
              /\ outcome[n] \in {"ok"} \cup UploadExcKinds
              /\ results[n].present
              /\ results[n].ok <=> outcome[n] = "ok"
              /\ TargetRecord(n).status = (IF outcome[n] = "ok" THEN "done" ELSE "failed")
    /\ pc = "uploaded" => \A n \in Attempted : wst[n] = "finished"

\* two targets failed, one by an exception and one by SystemExit, and the
\* third still completed
C8_Witness ==
    /\ pc = "uploaded"
    /\ outcome["Instagram Reels"] = "Exception"
    /\ outcome["YouTube Shorts"] = "SystemExit"
    /\ outcome["TikTok"] = "ok"
    /\ TargetRecord("TikTok").status = "done"

\* C9 -- upload_one_video returns only after every worker it started has
\* finished: at return every target neither user-skipped nor already done has
\* an entry in the result map, and no record written by the call is still
\* in_progress in the sidecar.
C9_JoinedBeforeReturn ==
    pc = "uploaded" =>
        /\ \A n \in Targets : wst[n] \in {"none", "finished"}
        /\ \A n \in Targets \ (skip_platforms \cup doneAtBegin) : results[n].present
        /\ \A n \in Targets :
              (n \in invoked \/ outcome[n] = "gated")
                  => TargetRecord(n).status \in {"done", "failed"}

\* the call returns after starting three workers
C9_Witness ==
    /\ pc = "uploaded"
    /\ invoked = Targets
    /\ \A n \in Targets : wst[n] = "finished"

\* the outcome of a target in this run is a failure
TargetFailed(n) == outcome[n] \in UploadExcKinds \cup {"gated"}

\* C10 -- Item status lifecycle: the top-level status is done only after
\* every step has a stable result and every non-skipped target succeeded; it
\* is failed when a step failed or when any target's outcome is a failure.
C10_StatusLifecycle ==
    /\ disk.status = "done" =>
          /\ \A n \in Targets \ skip_platforms : TargetRecord(n).status = "done"
          /\ \A n \in Targets : ~TargetFailed(n)
          /\ failedStep = 0
    /\ (pc = "move" /\ cur = 1) =>
          /\ disk.status = "done"
          /\ \A s \in Steps : CheckpointsOf(s) \cap fs # {}
          /\ "final" \in fs
    /\ (Exited /\ (StepFailed \/ \E n \in Targets : TargetFailed(n)))
          => disk.status = "failed"

\* status done has just been written after three successful publish calls
C10_Witness ==
    /\ pc = "move"
    /\ cur = 1
    /\ disk.status = "done"
    /\ \A n \in Targets : outcome[n] = "ok"

\* the files of the item that archival moves or deletes, and where they go
ItemFiles == {"src", "final", "sidecar", "cropped", "novocals"}
ArchivedFiles == {"p_src", "p_final", "p_sidecar"}

\* this step moves or deletes a file of the item
C11_MovesOrDeletes ==
    \/ \E f \in ItemFiles : f \in fs /\ f \notin fs'
    \/ \E f \in ArchivedFiles : f \notin fs /\ f \in fs'

\* the run published to every target it was not told to skip, and nothing failed
C11_FullSuccess ==
    /\ upload
    /\ failedStep = 0
    /\ \A n \in Targets : ~TargetFailed(n)
    /\ \A n \in Targets \ skip_platforms : outcome[n] = "ok" \/ n \in doneAtBegin

\* C11 -- Archival happens only on full success: files are moved to
\* processed/ (or deleted) only in a run in which the final artifact exists
\* and every publish result is ok; in a run with a failed target or a failed
\* step no file of the item is moved or deleted.
C11_ArchiveOnlyOnSuccess ==
    /\ []((pc = "move" /\ cur <= 2) => "final" \in fs)
    /\ []((pc \in {"move", "rm"}) => C11_FullSuccess)
    /\ [][C11_MovesOrDeletes => (pc \in {"move", "rm"} /\ C11_FullSuccess)]_vars

\* the three files have been moved after three successful publish calls
C11_Witness ==
    /\ pc = "rm"
    /\ cur = 1
    /\ ArchivedFiles \subseteq fs
    /\ \A n \in Targets : outcome[n] = "ok"

\* C12 -- After a fully successful run the source, the final artifact and the
\* sidecar (status done) are in processed/, none of them remains in the
\* workspace, and the intermediates _cropped and _novocals no longer exist.
C12_ArchivedAfterSuccess ==
    (pc = "idle" /\ exit_code = 0 /\ upload) =>
        /\ ArchivedFiles \subseteq fs
        /\ pdisk.status = "done"
        /\ fs \cap ItemFiles = {}

\* a run that executed all three steps and published everywhere has returned
C12_Witness ==
    /\ pc = "idle"
    /\ exit_code = 0
    /\ upload
    /\ executed = Steps
    /\ invoked = Targets

\* the publish phase of upload_one_video, and its part after the Instagram
\* iteration of the thread-starting loop
InPublish == pc \in {"spawn", "join", "uploaded"}
PastInstagram == (pc = "spawn" /\ cur > 1) \/ pc \in {"join", "uploaded"}

\* C13 -- Reachability gating: when the ngrok precheck fails and Instagram is
\* neither already done nor user-skipped, its publish call is never invoked,
\* it is recorded failed with reason 'ngrok not reachable', and the other
\* targets are still started.
C13_ReachabilityGate ==
    (InPublish /\ ~ngrok_up /\ "Instagram Reels" \notin (doneAtBegin \cup skip_platforms)) =>
        /\ "Instagram Reels" \notin invoked
        /\ wst["Instagram Reels"] = "none"
        /\ PastInstagram =>
              /\ TargetRecord("Instagram Reels").status = "failed"
              /\ TargetRecord("Instagram Reels").error = "ngrok not reachable"
              /\ results["Instagram Reels"] = FailRes("ngrok not reachable")
        /\ pc \in {"join", "uploaded"} =>
              \A n \in Targets \ ({"Instagram Reels"} \cup doneAtBegin \cup skip_platforms) :
                  wst[n] # "none"

\* Instagram was gated while the two other targets were published
C13_Witness ==
    /\ pc = "uploaded"
    /\ ~ngrok_up
    /\ outcome["Instagram Reels"] = "gated"
    /\ outcome["YouTube Shorts"] = "ok"
    /\ outcome["TikTok"] = "ok"
    /\ invoked = {"YouTube Shorts", "TikTok"}

\* the records of the sidecar that this step changes
C15_Changed == {k \in Keys : disk'.steps[k] # disk.steps[k]}

\* this step is taken by the worker of target n
C15_StepOf(n) == wst'[n] # wst[n]

\* C15 -- No lost update between target workers: a worker's write changes
\* only its own target's record, and when all workers have finished the
\* sidecar on disk holds the terminal record of every attempted target.
C15_NoLostUpdate ==
    /\ [](pc = "uploaded" =>
            \A n \in Targets :
                /\ outcome[n] = "ok" => TargetRecord(n) = DoneRec
                /\ outcome[n] \in UploadExcKinds
                      => TargetRecord(n) = FailedRec(UploadErrorMsg(outcome[n]))
                /\ outcome[n] = "gated" => TargetRecord(n) = GatedRec)
    /\ [][\A n \in Targets :
             (C15_StepOf(n) /\ pc \in {"spawn", "join"} /\ pc' \in {"spawn", "join"}
                  /\ wst[n] \in {"started", "uploading"})
                => (C15_Changed \subseteq {_platform_key(n)} /\ disk'.status = disk.status)]_vars

\* three workers wrote their records, the first to finish having failed
C15_Witness ==
    /\ pc = "uploaded"
    /\ outcome["Instagram Reels"] = "SystemExit"
    /\ outcome["YouTube Shorts"] = "ok"
    /\ outcome["TikTok"] = "Exception"
    /\ TargetRecord("Instagram Reels").status = "failed"
    /\ TargetRecord("YouTube Shorts").status = "done"

\* the run found the stable artifacts of crop and scrub_voices at their checks
\* and no final artifact, and the source is in the workspace
C25_Resumed == hadStable = {1, 2} /\ ~finalAtStart /\ "src" \in fs

\* the publish phase is over with a target that succeeded and one that failed
C25_MixedOutcome ==
    /\ pc \in {"idle", "move", "rm"}
    /\ \E n \in Targets : outcome[n] = "ok"
    /\ \E n \in Targets : outcome[n] \in UploadExcKinds

\* process_video is invoked again and again with uploading enabled and no
\* target left out; a transform raises an exception or is interrupted, a
\* publish call raises an exception, the process is killed; a process
\* that is not killed goes on, and every transform and every publish call
\* that is tried again and again succeeds in the end, as does the probe of
\* ngrok
NextResume ==
    \/ StartRun(TRUE, {})
    \/ SkipStep
    \/ BeginStep
    \/ TransformWrite
    \/ PromoteStep
    \/ RecordDone
    \/ \E kind \in {"Exception", "KeyboardInterrupt"} : RecordFailed(kind)
    \/ RemoveTmp
    \/ Handler
    \/ Crash
    \/ UploadBegin
    \/ Spawn
    \/ \E n \in Targets : WorkerBegin(n)
    \/ \E n \in Targets : WorkerOk(n)
    \/ \E n \in Targets : WorkerFail(n, "Exception")
    \/ Join
    \/ FinishFailed
    \/ FinishDone
    \/ MoveOne
    \/ RemoveOne

SpecResume ==
    /\ Init
    /\ [][NextResume]_vars
    /\ WF_vars(StartRun(TRUE, {}))
    /\ WF_vars(SkipStep)
    /\ WF_vars(BeginStep)
    /\ SF_vars(PromoteStep)
    /\ WF_vars(RecordDone)
    /\ WF_vars(RemoveTmp)
    /\ WF_vars(Handler)
    /\ SF_vars(UploadBegin /\ ngrok_up')
    /\ WF_vars(Spawn)
    /\ \A n \in Targets : WF_vars(WorkerBegin(n)) /\ SF_vars(WorkerOk(n))
    /\ WF_vars(Join)
    /\ WF_vars(FinishFailed)
    /\ WF_vars(FinishDone)
    /\ WF_vars(MoveOne)
    /\ WF_vars(RemoveOne)

\* no process is running and the sidecar in the workspace says failed or
\* in_progress
LeftUnfinished ==
    /\ pc = "idle"
    /\ "sidecar" \in fs
    /\ disk.status \in {"failed", "in_progress"}

\* the item is in processed/ with status done
Archived ==
    /\ {"p_src", "p_final", "p_sidecar"} \subseteq fs
    /\ pdisk.status = "done"
    /\ "src" \notin fs

\* C30 -- Resume makes progress: a run executes no step whose stable artifact
\* exists and every step from the first one it executes on, and an item left
\* failed or in_progress is, by repeated invocations whose transforms and
\* targets succeed in the end, brought to status done and archived.
C30_ResumeMakesProgress ==
    /\ [](pc = "gate" =>
            /\ executed \cap hadStable = {}
            /\ \E s \in 1..4 : executed = s..3)
    /\ LeftUnfinished ~> Archived

\* after a kill, a run that executed no step and found targets already done
\* has archived the item and returned
C30_Witness ==
    /\ Archived
    /\ pc = "idle"
    /\ crashes > 0
    /\ doneAtBegin # {}
    /\ executed = {}
    /\ exit_code = 0

\* C29 -- A done record is terminal: no publish call is in progress for a
\* target that a record of the item already shows done, be it the record the
\* publish phase of this run began with or the record an archival moved to
\* processed/ before the process was killed.
C29_DoneRecordTerminal ==
    \A n \in Targets :
        wst[n] = "uploading" =>
            /\ n \notin doneAtBegin
            /\ pdisk.steps[_platform_key(n)].status # "done"

\* a step in which the worker of video t records a failure
FailsIn(t) ==
    /\ t \in DOMAIN main_results
    /\ main_results[t] = "none"
    /\ main_results'[t] = "failed"

\* C28 -- No cross-item cancellation: the step in which one video fails
\* changes no other thread and removes nothing from pending; the batch does
\* not end before every video has run to its own exit code; and after a
\* failure every other video, running or pending, still reaches its own
\* outcome.
C28_NoCrossItemCancellation ==
    /\ [][\A t \in 1..(MaxItems + 1) :
            FailsIn(t) =>
                /\ pending' = pending
                /\ \A u \in DOMAIN threads \ {t} :
                      /\ threads'[u] = threads[u]
                      /\ main_results'[u] = main_results[u]]_vars
    /\ [](mpc \in {"summary", "report", "exited", "raised"} =>
            \A u \in DOMAIN threads :
                /\ threads[u] = "dead"
                /\ main_results[u] = (IF returncode[u] = 0 THEN "ok" ELSE "failed")
                /\ returncode[u] \in ReturnCodes)
    /\ (\E t \in DOMAIN main_results : main_results[t] = "failed")
          ~> (\A u \in DOMAIN threads : returncode[u] \in ReturnCodes)

\* the first video started has failed while others run and others wait, and
\* in the end a video started after that failure has succeeded
C28_Witness ==
    /\ mpc \in {"exited", "raised"}
    /\ Len(threads) > max_workers
    /\ main_results[started[1]] = "failed"
    /\ \E u \in DOMAIN threads :
          /\ main_results[u] = "ok"
          /\ \E k \in (max_workers + 1)..Len(started) : started[k] = u

\* C25 -- Resume scenario: a run that finds the stable artifacts of the first
\* two steps and not the third executes only the third step and then the
\* targets; when one target succeeds and another fails the sidecar ends with
\* status failed, normalize done, the targets done and failed as their calls
\* went, and nothing is archived.
C25_ResumeScenario ==
    /\ (C25_Resumed /\ pc \in {"gate", "spawn", "join", "uploaded"}) => executed = {3}
    /\ (C25_Resumed /\ C25_MixedOutcome) =>
          /\ pc = "idle"
          /\ exit_code = 1
          /\ executed = {3}
          /\ disk.status = "failed"
          /\ disk.steps["normalize"].status = "done"
          /\ \A n \in Targets :
                /\ outcome[n] = "ok" => TargetRecord(n).status = "done"
                /\ outcome[n] \in UploadExcKinds => TargetRecord(n).status = "failed"
          /\ {"src", "final", "sidecar"} \subseteq fs
          /\ fs \cap ArchivedFiles = {}

\* after a kill, the resumed run ended with YouTube published and TikTok exited
C25_Witness ==
    /\ C25_Resumed
    /\ C25_MixedOutcome
    /\ crashes > 0
    /\ outcome["YouTube Shorts"] = "ok"
    /\ outcome["TikTok"] = "SystemExit"

\* C31 -- Publishing starts only after the steps are complete: while
\* upload_one_video runs, and while a publish call is in progress, the final
\* stable artifact exists and no step has failed in this run.
C31_PublishAfterSteps ==
    /\ pc \in {"gate", "spawn", "join", "uploaded"} =>
          ("final" \in fs /\ failedStep = 0)
    /\ \A n \in Targets :
          wst[n] \in {"started", "uploading"} => ("final" \in fs /\ failedStep = 0)

\* a publish call is in progress in a run that executed the three steps
C31_Witness ==
    /\ \E n \in Targets : wst[n] = "uploading"
    /\ executed = {1, 2, 3}
    /\ "final" \in fs

\* status of the record of step s in the sidecar at the workspace path
StepStatus(s) == disk.steps[StepName[s]].status

\* C32 -- Step record transitions: while the sidecar stays at its path, the
\* record of a step changes only to in_progress when the step begins, its
\* stable artifact being absent, or from in_progress to done once the stable
\* artifact is in place and the in-flight one gone, or from in_progress to
\* failed.
C32_StepRecordTransitions ==
    [][\A s \in Steps :
          ("sidecar" \in fs /\ "sidecar" \in fs' /\ StepStatus(s)' # StepStatus(s)) =>
             \/ /\ StepStatus(s)' = "in_progress"
                /\ pc = "check" /\ cur = s /\ pc' = "run"
                /\ StableOf[s] \notin fs
             \/ /\ StepStatus(s) = "in_progress"
                /\ StepStatus(s)' = "done"
                /\ StableOf[s] \in fs
                /\ TmpOf[s] \notin fs
             \/ /\ StepStatus(s) = "in_progress"
                /\ StepStatus(s)' = "failed"
                /\ pc = "run" /\ cur = s]_vars

\* crop is recorded done with its artifact, scrub_voices failed after a kill
\* had left it in_progress, and no process is running
C32_Witness ==
    /\ pc = "idle"
    /\ crashes > 0
    /\ "cropped" \in fs
    /\ StepStatus(1) = "done"
    /\ StepStatus(2) = "failed"
    /\ StepStatus(3) = "none"

\* C33 -- A sidecar whose top-level status is done, in the workspace or in
\* processed/, holds no step record and no target record that is in_progress
\* or failed.
C33_DoneMeansAllDone ==
    \A doc \in {disk, pdisk} :
        doc.status = "done" =>
            \A k \in Keys : doc.steps[k].status \notin {"in_progress", "failed"}

\* the process goes from the test of step s to the next test or to the
\* upload without calling the transform
SkipsStep(s) == pc = "check" /\ cur = s /\ pc' \in {"check", "gate"}

\* the process goes from the test of step s into _run_step
RunsStep(s) == pc = "check" /\ cur = s /\ pc' = "run"

\* C34 -- A step is skipped exactly when its own stable artifact or that of a
\* later step exists: crop when _cropped, _novocals or the final artifact
\* exists, scrub_voices when _novocals or the final artifact exists,
\* normalize when the final artifact exists; whether the earlier artifacts
\* exist does not matter.
C34_SkipOnLaterArtifact ==
    [][/\ SkipsStep(1) => {"cropped", "novocals", "final"} \cap fs # {}
       /\ RunsStep(1) => {"cropped", "novocals", "final"} \cap fs = {}
       /\ SkipsStep(2) => {"novocals", "final"} \cap fs # {}
       /\ RunsStep(2) => {"novocals", "final"} \cap fs = {}
       /\ SkipsStep(3) => "final" \in fs
       /\ RunsStep(3) => "final" \notin fs]_vars

\* crop was just skipped on _novocals although _cropped does not exist
C34_Witness ==
    /\ pc = "check"
    /\ cur = 2
    /\ executed = {}
    /\ "cropped" \notin fs
    /\ "novocals" \in fs
    /\ "final" \notin fs

\* C35 -- With upload=False a run whose steps all succeed returns with the
\* final artifact in place and the status still in_progress, no publish call
\* made; and no step of such a run removes a file other than an in-flight
\* one, or starts a target's thread.
C35_NoUploadRun ==
    /\ []((pc = "idle" /\ ~upload /\ exit_code = 0) =>
            /\ {"final", "sidecar"} \subseteq fs
            /\ disk.status = "in_progress"
            /\ failedStep = 0
            /\ invoked = {}
            /\ \A n \in Targets : outcome[n] = "none" /\ ~results[n].present)
    /\ [][(~upload /\ pc # "idle") =>
            /\ (fs \ InFlight) \subseteq fs'
            /\ fs' \cap {"p_src", "p_final", "p_sidecar"} =
                  fs \cap {"p_src", "p_final", "p_sidecar"}
            /\ disk'.status # "done"
            /\ wst' = [n \in Targets |-> "none"]]_vars

\* a run without upload has executed the three steps and returned
C35_Witness ==
    /\ pc = "idle"
    /\ ~upload
    /\ exit_code = 0
    /\ executed = Steps
    /\ {"src", "cropped", "novocals", "final"} \subseteq fs

\* a target named in skip_platforms has no thread and no publish call in this
\* run
NotInvoked(n) == n \notin invoked /\ wst[n] = "none" /\ outcome[n] = "none"

\* no step of a run that skips n by flag changes n's record in the sidecar
\* at the workspace path
RecordUntouched(n) ==
    (n \in skip_platforms' /\ "sidecar" \in fs /\ "sidecar" \in fs') =>
        disk'.steps[_platform_key(n)] = disk.steps[_platform_key(n)]

\* when the targets not skipped by flag all have a successful result, the
\* process, unless killed, writes status done and goes on to the archival
DoneDespiteSkip ==
    (/\ pc = "uploaded"
     /\ \A m \in Targets \ skip_platforms : results[m] = OkRes
     /\ exit_code' # 137) =>
        (pc' = "move" /\ disk'.status = "done")

\* C36 (as stated) -- A target named in skip_platforms is never invoked, has
\* no entry in the result map, no record is written for it, and it does not
\* keep the item from being marked done and archived.
C36_SkippedByFlag ==
    /\ [](\A n \in skip_platforms : NotInvoked(n) /\ ~results[n].present)
    /\ [][\A n \in Targets : RecordUntouched(n)]_vars
    /\ [][DoneDespiteSkip]_vars

\* C36 (amended) -- A target named in skip_platforms is never invoked and no
\* record is written for it; it has no entry in the result map unless the
\* sidecar already records it done, and then its entry is a success; it does
\* not keep the item from being marked done and archived.
C36_SkippedByFlagUnlessDone ==
    /\ [](\A n \in skip_platforms :
            /\ NotInvoked(n)
            /\ results[n].present => (results[n] = OkRes /\ n \in doneAtBegin))
    /\ [][\A n \in Targets : RecordUntouched(n)]_vars
    /\ [][DoneDespiteSkip]_vars

\* a run that skipped TikTok by flag has archived the item with status done,
\* TikTok without result and without record
C36_Witness ==
    /\ pc = "idle"
    /\ exit_code = 0
    /\ upload
    /\ skip_platforms = {"TikTok"}
    /\ ~results["TikTok"].present
    /\ invoked = Targets \ {"TikTok"}
    /\ pdisk.status = "done"
    /\ pdisk.steps[_platform_key("TikTok")] = NoRec
    /\ {"p_src", "p_final", "p_sidecar"} \subseteq fs

\* the scheduling loop of main is over
LoopOver == mpc \in {"summary", "report", "exited", "raised"}

\* C37 -- Batch termination and completeness: with the main thread running
\* and every started subprocess ending, main comes to its end; no video is
\* started twice; when the loop is over every discovered video has been
\* started; and the tally printed has succeeded + failed = number of
\* discovered videos.
C37_BatchTerminatesComplete ==
    /\ <>(mpc \in {"exited", "raised"})
    /\ [](\A i, j \in DOMAIN started : i # j => started[i] # started[j])
    /\ []((LoopOver /\ videos # <<>>) =>
            /\ pending = <<>>
            /\ Len(started) = Len(videos)
            /\ Range(started) = DOMAIN videos
            /\ succeeded + failed_count = Len(videos))
    /\ [](printed # <<>> =>
            /\ printed[1][1] = "tally"
            /\ printed[1][2] + printed[1][3] = Len(videos))

\* a batch of more videos than workers has ended, its tally counting four
\* succeeded videos and one failed
C37_Witness ==
    /\ mpc \in {"exited", "raised"}
    /\ Len(videos) = 5
    /\ max_workers = 4
    /\ printed # <<>>
    /\ printed[1] = <<"tally", 4, 1>>
    /\ Len(started) = 5

\* the steps of video v the display shows running
RunningSteps(v) == {i \in 1..NSteps : step_status[v][i] = "running"}

\* finish_video has returned for video v
Finished(v) == wkpc[v] \in {"return", "dead"}

\* C38 -- Live display step state: a video never has two steps running; once
\* finish_video has returned none of its steps is running, the step that was
\* running at a failure is failed, after a success every step begun is done,
\* and the status of the video is done or failed; a status done or failed
\* never changes again.
C38_LiveStepState ==
    /\ [](\A v \in LiveVideos : Cardinality(RunningSteps(v)) <= 1)
    /\ [](\A v \in LiveVideos :
            Finished(v) =>
                /\ RunningSteps(v) = {}
                /\ video_status[v] = (IF proc_rc[v] = 0 THEN "done" ELSE "failed")
                /\ \A i \in 1..NSteps :
                      step_status[v][i] =
                         (IF i > current_step[v] + 1 THEN "waiting"
                          ELSE IF i = current_step[v] + 1 /\ proc_rc[v] # 0 THEN "failed"
                          ELSE "done"))
    /\ [][\A v \in LiveVideos :
            video_status[v] \in {"done", "failed"} =>
                video_status'[v] = video_status[v]]_vars

\* one video has failed in its third step and finish_video has returned,
\* while another video's first step is running
C38_Witness ==
    /\ \E v \in LiveVideos :
          /\ Finished(v)
          /\ video_status[v] = "failed"
          /\ step_status[v] = <<"done", "done", "failed", "waiting">>
    /\ \E v \in LiveVideos :
          /\ video_status[v] = "running"
          /\ RunningSteps(v) = {1}

\* the response of the status request of this step was a rate-limit error
GotRateLimited == ppc = "request" /\ (ppc' = "backoff" \/ cause' = "rate_limit")

\* the status request of this step came back without an HTTPError
GotResponse ==
    /\ ppc = "request"
    /\ ppc' \in {"returned", "sleep"} \/ (ppc' = "exited" /\ cause' = "remote_error")

====
